---- MODULE Spec2Model ----
(***************************************************************************)
(* The trip generation pipeline of travelplanai: the POST handler of the   *)
(* generate route, its provider orchestrator callAIWithFallback, the       *)
(* request and response validators and the cost functions.                 *)
(*                                                                         *)
(* JavaScript values are tagged records [t |-> <typeof>, v |-> <value>];   *)
(* JavaScript strings are TLA+ strings (sequences of characters), so that  *)
(* includes, toLowerCase, trim and parseInt are computed character by      *)
(* character.                                                              *)
(***************************************************************************)
EXTENDS Integers, Sequences, FiniteSets, TLC

VARIABLES
    pc,                  \* position of the POST invocation
    body,                \* the request body as received (text + parsed value)
    OPENROUTER_API_KEY,  \* process.env.OPENROUTER_API_KEY
    validation,          \* what validateRequestBody returned
    prompt,              \* the arguments buildPrompt was called with
    stages,              \* the pipeline stages entered so far, in order
    calls,               \* the provider calls issued so far, in order
    groqOutcome,         \* what groq.chat.completions.create did
    openRouterOutcome,   \* what openrouter.createChatCompletion did
    lastError,           \* callAIWithFallback's lastError
    raw,                 \* the text callAIWithFallback returned
    parsed,              \* JSON.parse(raw)
    thrown,              \* the exception POST's catch block received
    response,            \* the NextResponse POST returned
    server,              \* the server's calendar day and time zone
    clock,               \* the server's time (new Date().getTime()), in minutes
    exchangeRatesCache,  \* cost-utils' exchangeRatesCache
    lastRateUpdate       \* cost-utils' lastRateUpdate

vars == <<pc, body, OPENROUTER_API_KEY, server, validation, prompt, stages, calls, groqOutcome,
          openRouterOutcome, lastError, raw, parsed, thrown, response,
          clock, exchangeRatesCache, lastRateUpdate>>

-----------------------------------------------------------------------------
(* JavaScript values *)

Undefined == [t |-> "undefined"]
Null == [t |-> "null"]
Str(s) == [t |-> "string", v |-> s]
\* A number is the rational n/d in lowest terms with d > 0; d = 0 stands for
\* the values that are no rational: NaN (n = 0), Infinity (n = 1) and
\* -Infinity (n = -1).
Abs(i) == IF i < 0 THEN -i ELSE i

RECURSIVE Gcd(_, _)
Gcd(a, b) == IF b = 0 THEN a ELSE Gcd(b, a % b)

Rat(n, d) ==
    IF d = 0 THEN [t |-> "number", n |-> (IF n > 0 THEN 1 ELSE IF n < 0 THEN -1 ELSE 0), d |-> 0]
    ELSE LET g == Gcd(Abs(n), Abs(d))
             sg == IF d < 0 THEN -1 ELSE 1
         IN  [t |-> "number", n |-> sg * (n \div g), d |-> sg * (d \div g)]
Num(n) == [t |-> "number", n |-> n, d |-> 1]
NaN == [t |-> "number", n |-> 0, d |-> 0]
Infinity == [t |-> "number", n |-> 1, d |-> 0]
Bool(b) == [t |-> "boolean", v |-> b]
Arr(a) == [t |-> "array", v |-> a]
Obj(o) == [t |-> "object", v |-> o]

\* typeof x (arrays and null are "object")
TypeOf(x) == IF x.t \in {"array", "null"} THEN "object" ELSE x.t

\* ToBoolean(x): the values an `if (x)` or `!x` treats as true
Truthy(x) ==
    CASE x.t = "undefined" -> FALSE
      [] x.t = "null" -> FALSE
      [] x.t = "string" -> x.v # ""
      [] x.t = "number" -> x.n # 0
      [] x.t = "boolean" -> x.v
      [] OTHER -> TRUE

IsNaN(x) == x.t = "number" /\ x.d = 0 /\ x.n = 0
IsFinite(x) == x.t = "number" /\ x.d # 0
IsInteger(x) == x.t = "number" /\ x.d = 1

\* a < b, a - b, a + b, a * b, a / b on numbers (every comparison with NaN is
\* false, as in IEEE arithmetic)
Less(a, b) ==
    CASE IsNaN(a) \/ IsNaN(b) -> FALSE
      [] a.d = 0 /\ b.d = 0 -> a.n < b.n
      [] a.d = 0 -> a.n < 0
      [] b.d = 0 -> b.n > 0
      [] OTHER -> a.n * b.d < b.n * a.d
Greater(a, b) == Less(b, a)
LessEq(a, b) == ~IsNaN(a) /\ ~IsNaN(b) /\ ~Less(b, a)
Neg(a) == [t |-> "number", n |-> -a.n, d |-> a.d]
Plus(a, b) ==
    CASE IsNaN(a) \/ IsNaN(b) -> NaN
      [] a.d = 0 /\ b.d = 0 -> IF a.n = b.n THEN a ELSE NaN
      [] a.d = 0 -> a
      [] b.d = 0 -> b
      [] OTHER -> Rat(a.n * b.d + b.n * a.d, a.d * b.d)
Minus(a, b) == Plus(a, Neg(b))
Times(a, b) ==
    CASE IsNaN(a) \/ IsNaN(b) -> NaN
      [] a.d = 0 \/ b.d = 0 ->
            IF a.n = 0 \/ b.n = 0 THEN NaN
            ELSE Rat((IF a.n > 0 THEN 1 ELSE -1) * (IF b.n > 0 THEN 1 ELSE -1), 0)
      [] OTHER -> Rat(a.n * b.n, a.d * b.d)
Divide(a, b) ==
    CASE IsNaN(a) \/ IsNaN(b) -> NaN
      [] a.d = 0 /\ b.d = 0 -> NaN
      [] a.d = 0 -> IF b.n < 0 THEN Neg(a) ELSE a
      [] b.d = 0 -> Num(0)
      [] b.n = 0 -> IF a.n = 0 THEN NaN ELSE Rat(a.n, 0)
      [] OTHER -> Rat(a.n * b.d, a.d * b.n)
MathAbs(a) == [t |-> "number", n |-> Abs(a.n), d |-> a.d]
\* Math.ceil, Math.floor
Floor(a) == IF a.d = 0 THEN a ELSE Num(a.n \div a.d)
MathCeil(a) == IF a.d = 0 THEN a ELSE Num(-((-a.n) \div a.d))

\* obj.key of an object value (undefined when the key is absent)
Get(x, key) ==
    IF x.t = "object" /\ key \in DOMAIN x.v THEN x.v[key] ELSE Undefined

\* `key in obj`
HasKey(x, key) == x.t = "object" /\ key \in DOMAIN x.v

-----------------------------------------------------------------------------
(* JavaScript strings *)

CharAt(s, i) == SubSeq(s, i, i)

\* String.prototype.includes
Includes(s, p) ==
    \/ Len(p) = 0
    \/ \E i \in 1..(Len(s) - Len(p) + 1) : SubSeq(s, i, i + Len(p) - 1) = p

LowerChar(c) ==
    CASE c = "A" -> "a" [] c = "B" -> "b" [] c = "C" -> "c" [] c = "D" -> "d"
      [] c = "E" -> "e" [] c = "F" -> "f" [] c = "G" -> "g" [] c = "H" -> "h"
      [] c = "I" -> "i" [] c = "J" -> "j" [] c = "K" -> "k" [] c = "L" -> "l"
      [] c = "M" -> "m" [] c = "N" -> "n" [] c = "O" -> "o" [] c = "P" -> "p"
      [] c = "Q" -> "q" [] c = "R" -> "r" [] c = "S" -> "s" [] c = "T" -> "t"
      [] c = "U" -> "u" [] c = "V" -> "v" [] c = "W" -> "w" [] c = "X" -> "x"
      [] c = "Y" -> "y" [] c = "Z" -> "z" [] OTHER -> c

\* String.prototype.toLowerCase
RECURSIVE ToLowerCase(_)
ToLowerCase(s) ==
    IF Len(s) = 0 THEN ""
    ELSE LowerChar(CharAt(s, 1)) \o ToLowerCase(SubSeq(s, 2, Len(s)))

WhiteSpace == {" ", "\t", "\n", "\r"}
Digits == {"0", "1", "2", "3", "4", "5", "6", "7", "8", "9"}
UpperCase == {"A", "B", "C", "D", "E", "F", "G", "H", "I", "J", "K", "L", "M",
              "N", "O", "P", "Q", "R", "S", "T", "U", "V", "W", "X", "Y", "Z"}

DigitVal(c) ==
    CASE c = "0" -> 0 [] c = "1" -> 1 [] c = "2" -> 2 [] c = "3" -> 3
      [] c = "4" -> 4 [] c = "5" -> 5 [] c = "6" -> 6 [] c = "7" -> 7
      [] c = "8" -> 8 [] c = "9" -> 9
      [] c \in {"a", "A"} -> 10 [] c \in {"b", "B"} -> 11 [] c \in {"c", "C"} -> 12
      [] c \in {"d", "D"} -> 13 [] c \in {"e", "E"} -> 14 [] c \in {"f", "F"} -> 15
      [] OTHER -> 99

RECURSIVE TrimStart(_)
TrimStart(s) ==
    IF Len(s) > 0 /\ CharAt(s, 1) \in WhiteSpace
    THEN TrimStart(SubSeq(s, 2, Len(s))) ELSE s

RECURSIVE TrimEnd(_)
TrimEnd(s) ==
    IF Len(s) > 0 /\ CharAt(s, Len(s)) \in WhiteSpace
    THEN TrimEnd(SubSeq(s, 1, Len(s) - 1)) ELSE s

\* String.prototype.trim
Trim(s) == TrimEnd(TrimStart(s))

\* The length of the longest prefix of s made of digits of the radix.
RECURSIVE DigitRun(_, _)
DigitRun(s, radix) ==
    IF Len(s) > 0 /\ DigitVal(CharAt(s, 1)) < radix
    THEN 1 + DigitRun(SubSeq(s, 2, Len(s)), radix) ELSE 0

\* The value of a string of digits of the radix.
RECURSIVE DigitsValue(_, _)
DigitsValue(s, radix) ==
    IF Len(s) = 0 THEN 0
    ELSE DigitsValue(SubSeq(s, 1, Len(s) - 1), radix) * radix + DigitVal(CharAt(s, Len(s)))

RECURSIVE Pow10(_)
Pow10(k) == IF k = 0 THEN 1 ELSE 10 * Pow10(k - 1)

\* parseInt(s, radix) on a string; radix 0 is the absent radix argument
\* (decimal, or hexadecimal after a 0x prefix).
ParseIntStr(s, radix) ==
    LET Value(sign, w, r) ==
            IF DigitRun(w, r) = 0 THEN NaN
            ELSE Num(sign * DigitsValue(SubSeq(w, 1, DigitRun(w, r)), r))
        Unsigned(sign, u) ==
            IF radix = 0 /\ Len(u) >= 2 /\ SubSeq(u, 1, 2) \in {"0x", "0X"}
            THEN Value(sign, SubSeq(u, 3, Len(u)), 16)
            ELSE Value(sign, u, IF radix = 0 THEN 10 ELSE radix)
        Signed(t) ==
            Unsigned(IF Len(t) > 0 /\ CharAt(t, 1) = "-" THEN -1 ELSE 1,
                     IF Len(t) > 0 /\ CharAt(t, 1) \in {"+", "-"}
                     THEN SubSeq(t, 2, Len(t)) ELSE t)
    IN  Signed(TrimStart(s))

\* parseFloat(s) on a string: the longest prefix that is a decimal literal.
ParseFloatStr(s) ==
    LET Scaled(sign, mant, kf, exp) ==
            IF exp >= 0 THEN Rat(sign * mant * Pow10(exp), Pow10(kf))
            ELSE Rat(sign * mant, Pow10(kf) * Pow10(-exp))
        Exponent(eRest) ==
            LET eSign == IF Len(eRest) > 0 /\ CharAt(eRest, 1) = "-" THEN -1 ELSE 1
                eDigits == IF Len(eRest) > 0 /\ CharAt(eRest, 1) \in {"+", "-"}
                           THEN SubSeq(eRest, 2, Len(eRest)) ELSE eRest
            IN  eSign * DigitsValue(SubSeq(eDigits, 1, DigitRun(eDigits, 10)), 10)
        Fraction(sign, intDigits, fracDigits, afterFrac) ==
            Scaled(sign,
                   DigitsValue(intDigits, 10) * Pow10(Len(fracDigits))
                        + DigitsValue(fracDigits, 10),
                   Len(fracDigits),
                   IF Len(afterFrac) > 0 /\ CharAt(afterFrac, 1) \in {"e", "E"}
                   THEN Exponent(SubSeq(afterFrac, 2, Len(afterFrac))) ELSE 0)
        Integer(sign, u, ki, afterInt) ==
            LET dot == Len(afterInt) > 0 /\ CharAt(afterInt, 1) = "."
                kf == IF dot THEN DigitRun(SubSeq(afterInt, 2, Len(afterInt)), 10) ELSE 0
            IN  IF ki + kf = 0 THEN NaN
                ELSE Fraction(sign, SubSeq(u, 1, ki),
                              IF dot THEN SubSeq(afterInt, 2, kf + 1) ELSE "",
                              IF dot THEN SubSeq(afterInt, kf + 2, Len(afterInt)) ELSE afterInt)
        Literal(sign, u) ==
            IF Len(u) >= 8 /\ SubSeq(u, 1, 8) = "Infinity" THEN Rat(sign, 0)
            ELSE Integer(sign, u, DigitRun(u, 10), SubSeq(u, DigitRun(u, 10) + 1, Len(u)))
        Signed(t) ==
            Literal(IF Len(t) > 0 /\ CharAt(t, 1) = "-" THEN -1 ELSE 1,
                    IF Len(t) > 0 /\ CharAt(t, 1) \in {"+", "-"}
                    THEN SubSeq(t, 2, Len(t)) ELSE t)
    IN  Signed(TrimStart(s))

\* String.prototype.split for a one-character separator
RECURSIVE SplitFrom(_, _, _)
SplitFrom(s, sep, acc) ==
    IF Len(s) = 0 THEN <<acc>>
    ELSE IF CharAt(s, 1) = sep THEN <<acc>> \o SplitFrom(SubSeq(s, 2, Len(s)), sep, "")
    ELSE SplitFrom(SubSeq(s, 2, Len(s)), sep, acc \o CharAt(s, 1))
Split(s, sep) == SplitFrom(s, sep, "")

\* The decimal digits of a natural number.
RECURSIVE NatToString(_)
NatToString(k) ==
    LET c == SubSeq("0123456789", (k % 10) + 1, (k % 10) + 1)
    IN  IF k < 10 THEN c ELSE NatToString(k \div 10) \o c

\* The digits after the decimal point of num/den (num < den), at most
\* `places` of them.
RECURSIVE FractionDigits(_, _, _)
FractionDigits(num, den, places) ==
    IF num = 0 \/ places = 0 THEN ""
    ELSE NatToString((num * 10) \div den)
            \o FractionDigits((num * 10) % den, den, places - 1)

\* Number.prototype.toString (for the magnitudes that print without an
\* exponent)
NumberToString(x) ==
    IF x.d = 0
    THEN (IF x.n = 0 THEN "NaN" ELSE IF x.n > 0 THEN "Infinity" ELSE "-Infinity")
    ELSE LET a == Abs(x.n)
             int == NatToString(a \div x.d)
             frac == FractionDigits(a % x.d, x.d, 17)
         IN  (IF x.n < 0 THEN "-" ELSE "") \o int
                \o (IF frac = "" THEN "" ELSE "." \o frac)

\* ToString(x), as applied by parseInt, parseFloat and string concatenation
RECURSIVE ToStringJS(_)
RECURSIVE JoinComma(_)
JoinComma(a) ==
    IF Len(a) = 0 THEN ""
    ELSE LET h == IF Head(a).t \in {"undefined", "null"} THEN "" ELSE ToStringJS(Head(a))
         IN  IF Len(a) = 1 THEN h ELSE h \o "," \o JoinComma(Tail(a))
ToStringJS(x) ==
    CASE x.t = "string" -> x.v
      [] x.t = "number" -> NumberToString(x)
      [] x.t = "boolean" -> (IF x.v THEN "true" ELSE "false")
      [] x.t = "undefined" -> "undefined"
      [] x.t = "null" -> "null"
      [] x.t = "array" -> JoinComma(x.v)
      [] OTHER -> "[object Object]"

\* parseInt(x), parseFloat(x)
ParseInt(x) == ParseIntStr(ToStringJS(x), 0)
ParseFloat(x) == ParseFloatStr(ToStringJS(x))

\* ToNumber of a string: the whole trimmed text must be a decimal literal
StringToNumber(s) ==
    LET Whole(t, u, ki) ==
            LET dot == Len(u) > ki /\ CharAt(u, ki + 1) = "."
                kf == IF dot THEN DigitRun(SubSeq(u, ki + 2, Len(u)), 10) ELSE 0
            IN  IF u = "Infinity" \/ (ki + kf > 0 /\ ki + (IF dot THEN 1 + kf ELSE 0) = Len(u))
                THEN ParseFloatStr(t)
                ELSE NaN
        Unsigned(t, u) == Whole(t, u, DigitRun(u, 10))
        Trimmed(t) ==
            IF t = "" THEN Num(0)
            ELSE Unsigned(t, IF CharAt(t, 1) \in {"+", "-"} THEN SubSeq(t, 2, Len(t)) ELSE t)
    IN  Trimmed(Trim(s))

\* ToNumber(x), as applied by the arithmetic operators
ToNumber(x) ==
    CASE x.t = "number" -> x
      [] x.t = "string" -> StringToNumber(x.v)
      [] x.t = "boolean" -> (IF x.v THEN Num(1) ELSE Num(0))
      [] x.t = "null" -> Num(0)
      [] x.t = "undefined" -> NaN
      [] x.t = "array" -> StringToNumber(JoinComma(x.v))
      [] OTHER -> NaN

\* /^[A-Z]{3}$/.test(s)
IsCurrencyCode(s) ==
    /\ Len(s) = 3
    /\ \A i \in 1..3 : CharAt(s, i) \in UpperCase

-----------------------------------------------------------------------------
(* Exceptions *)

\* A thrown value.  kind "Error" is an instance of Error (name, message and
\* the status fields some HTTP clients add); kind "string" is a thrown string
\* (its text in message); kind "object" is a thrown plain object.  A status
\* field of 0 is an absent field.
Thrown(kind, name, message, status, statusCode, responseStatus) ==
    [kind |-> kind, name |-> name, message |-> message, status |-> status,
     statusCode |-> statusCode, responseStatus |-> responseStatus]

NewError(message) == Thrown("Error", "Error", message, 0, 0, 0)
NewTypeError(message) == Thrown("Error", "TypeError", message, 0, 0, 0)

NoError == Thrown("none", "", "", 0, 0, 0)

\* String(error)
StringOf(e) ==
    CASE e.kind = "string" -> e.message
      [] e.kind = "object" -> "[object Object]"
      [] e.name = "" -> e.message
      [] e.message = "" -> e.name
      [] OTHER -> e.name \o ": " \o e.message

InstanceOfError(e) == e.kind = "Error"

\* The result of a call: it returns a value or throws.
Returns(value) == [returns |-> TRUE, value |-> value, error |-> NoError]
Throws(error) == [returns |-> FALSE, value |-> "", error |-> error]

-----------------------------------------------------------------------------
(* Responses *)

NoResponse == [status |-> 0, error |-> "", details |-> Undefined, json |-> Undefined]

\* NextResponse.json({ error, details }, { status })
ErrorResponse(status, error, details) ==
    [status |-> status, error |-> error, details |-> details, json |-> Undefined]

\* NextResponse.json(payload): the default status is 200
SuccessResponse(payload) ==
    [status |-> 200, error |-> "", details |-> Undefined, json |-> payload]

-----------------------------------------------------------------------------
(* Provider orchestrator *)

\* What a provider's SDK call does: it resolves with a completion whose
\* choices[0].message.content is `content`, resolves with an empty choices
\* array, or rejects with `error`.
Resolves(content) == [kind |-> "content", content |-> content, error |-> NoError]
ResolvesNoChoices == [kind |-> "nochoices", content |-> Undefined, error |-> NoError]
Rejects(error) == [kind |-> "rejects", content |-> Undefined, error |-> error]
Pending == [kind |-> "pending", content |-> Undefined, error |-> NoError]


\* callGroqAPI without its `if (!raw) throw`: whatever content came back is
\* returned.
callGroqAPI_NoEmptyCheck(o) ==
    CASE o.kind = "rejects" -> Throws(o.error)
      [] o.kind = "nochoices" ->
            Throws(NewTypeError("Cannot read properties of undefined (reading 'message')"))
      [] OTHER -> Returns(IF o.content.t = "string" THEN o.content.v ELSE "")

\* callGroqAPI after groq.chat.completions.create settled with outcome o:
\* chat.choices[0].message?.content, `if (!raw) throw`.
callGroqAPI(o) ==
    CASE o.kind = "rejects" -> Throws(o.error)
      [] o.kind = "nochoices" ->
            Throws(NewTypeError("Cannot read properties of undefined (reading 'message')"))
      [] OTHER ->
            IF ~Truthy(o.content)
            THEN Throws(NewError("Empty response from Groq API"))
            ELSE Returns(o.content.v)

\* callOpenRouterAPI with the emptiness test inverted: `if (raw) throw`.
callOpenRouterAPI_InvertedCheck(o) ==
    CASE o.kind = "rejects" -> Throws(o.error)
      [] o.kind = "nochoices" -> Returns("")
      [] OTHER ->
            IF Truthy(o.content)
            THEN Throws(NewError("Empty response from OpenRouter API"))
            ELSE Returns("")

\* callOpenRouterAPI after openrouter.createChatCompletion settled with
\* outcome o: response.choices[0]?.message?.content, `if (!raw) throw`.
callOpenRouterAPI(o) ==
    CASE o.kind = "rejects" -> Throws(o.error)
      [] o.kind = "nochoices" -> Throws(NewError("Empty response from OpenRouter API"))
      [] OTHER ->
            IF ~Truthy(o.content)
            THEN Throws(NewError("Empty response from OpenRouter API"))
            ELSE Returns(o.content.v)

\* The classification of a primary failure in callAIWithFallback.
shouldFallback(error) ==
    LET errorMessage == IF InstanceOfError(error) THEN ToLowerCase(error.message) ELSE ""
        errorString == ToLowerCase(StringOf(error))
    IN  \/ Includes(errorMessage, "rate limit")
        \/ Includes(errorMessage, "overload")
        \/ Includes(errorMessage, "503")
        \/ Includes(errorMessage, "502")
        \/ Includes(errorMessage, "500")
        \/ Includes(errorMessage, "401")
        \/ Includes(errorMessage, "timeout")
        \/ Includes(errorMessage, "api error")
        \/ Includes(errorMessage, "invalid api key")
        \/ Includes(errorMessage, "service unavailable")
        \/ Includes(errorMessage, "bad gateway")
        \/ Includes(errorMessage, "internal server error")
        \/ Includes(errorMessage, "unauthorized")
        \/ Includes(errorString, "503")
        \/ Includes(errorString, "502")
        \/ Includes(errorString, "500")
        \/ Includes(errorString, "401")
        \/ error.status \in {503, 502, 500, 401}
        \/ error.statusCode \in {503, 502, 500, 401}
        \/ error.responseStatus \in {503, 502, 500, 401}

\* A catch block that passes the exception's text on to the caller.
CatchResponse_EchoesMessage(error) ==
    ErrorResponse(500, "Failed to generate itinerary", Str(StringOf(error)))

\* The catch block of POST: the response for an exception thrown anywhere
\* inside the handler's try block.
CatchResponse(error) ==
    IF InstanceOfError(error) /\ Includes(error.message, "rate limit")
    THEN ErrorResponse(429, "Service temporarily unavailable",
            Str("Both primary and backup services are currently overloaded. Please try again in a moment."))
    ELSE IF InstanceOfError(error) /\ Includes(error.message, "API key")
    THEN ErrorResponse(500, "Service configuration error", Str("Please contact support"))
    ELSE IF InstanceOfError(error)
            /\ (Includes(error.message, "OpenRouter") \/ Includes(error.message, "Groq"))
    THEN ErrorResponse(503, "AI service unavailable",
            Str("Both primary and backup AI services are currently unavailable. Please try again later."))
    ELSE ErrorResponse(500, "Failed to generate itinerary", Str("An unexpected error occurred"))

-----------------------------------------------------------------------------
(* Dates (date-utils) *)

\* A Date at local midnight is the number of its day, counted from
\* 1970-01-01; NullDate is null.
NullDate == [isNull |-> TRUE, day |-> 0]
DateOf(day) == [isNull |-> FALSE, day |-> day]

IsLeapYear(y) == (y % 4 = 0 /\ y % 100 # 0) \/ y % 400 = 0

DaysInMonth(y, m) ==
    CASE m \in {1, 3, 5, 7, 8, 10, 12} -> 31
      [] m \in {4, 6, 9, 11} -> 30
      [] OTHER -> IF IsLeapYear(y) THEN 29 ELSE 28

\* The day number of the civil date y-m-d, m in 1..12.
DaysFromCivil(y, m, d) ==
    LET yy == IF m <= 2 THEN y - 1 ELSE y
        era == yy \div 400
        yoe == yy - era * 400
        mp == IF m > 2 THEN m - 3 ELSE m + 9
        doy == (153 * mp + 2) \div 5 + d - 1
        doe == yoe * 365 + yoe \div 4 - yoe \div 100 + doy
    IN  era * 146097 + doe - 719468

\* The civil date of a day number.
CivilFromDays(z) ==
    LET zz == z + 719468
        era == zz \div 146097
        doe == zz - era * 146097
        yoe == (doe - doe \div 1460 + doe \div 36524 - doe \div 146096) \div 365
        doy == doe - (365 * yoe + yoe \div 4 - yoe \div 100)
        mp == (5 * doy + 2) \div 153
        d == doy - (153 * mp + 2) \div 5 + 1
        m == IF mp < 10 THEN mp + 3 ELSE mp - 9
    IN  [year |-> (yoe + era * 400) + (IF m <= 2 THEN 1 ELSE 0), month |-> m, date |-> d]

\* new Date(year, monthIndex, day): month and day overflow carry over.
NewDate(year, monthIndex, day) ==
    LET y == year + monthIndex \div 12
        m == (monthIndex % 12) + 1
    IN  DateOf(DaysFromCivil(y, m, 1) + day - 1)

\* Date.prototype.getDate
GetDate(date) == CivilFromDays(date.day).date

\* Date.prototype.getTime in hours: local midnight of a day, an hour earlier
\* in universal time while the server's zone is on summer time.
InSummerTime(day, srv) == srv.dstStart < day /\ day <= srv.dstEnd
GetTime(date, srv) == 24 * date.day - (IF InSummerTime(date.day, srv) THEN 1 ELSE 0)
HoursPerDay == 24

\* The three numbers of a date string split at sep, each parseInt(s, 10);
\* a missing part is undefined, which is no number.
DatePart(parts, i) == IF i <= Len(parts) THEN ParseIntStr(parts[i], 10) ELSE NaN

\* day && month && year && day <= 31 && month <= 12 && year >= 1900, then
\* the Date if its day of the month is the day given.
DateFromParts(year, month, day) ==
    IF /\ Truthy(day) /\ Truthy(month) /\ Truthy(year)
       /\ LessEq(day, Num(31)) /\ LessEq(month, Num(12)) /\ LessEq(Num(1900), year)
    THEN LET date == NewDate(year.n, month.n - 1, day.n)
         IN  IF GetDate(date) = day.n THEN date ELSE NullDate
    ELSE NullDate

\* parseDateString(dateString): the Date, null, or a TypeError when the
\* value has no includes or no split method.
parseDateString(x) ==
    CASE ~Truthy(x) -> Returns(NullDate)
      [] x.t = "string" ->
            IF Includes(x.v, "/")
            THEN LET parts == Split(x.v, "/")
                 IN  Returns(DateFromParts(DatePart(parts, 3), DatePart(parts, 1), DatePart(parts, 2)))
            ELSE IF Includes(x.v, "-")
            THEN LET parts == Split(x.v, "-")
                 IN  Returns(DateFromParts(DatePart(parts, 1), DatePart(parts, 2), DatePart(parts, 3)))
            ELSE Returns(NullDate)
      [] x.t = "array" ->
            IF \E i \in 1..Len(x.v) : x.v[i] \in {Str("/"), Str("-")}
            THEN Throws(NewTypeError("dateString.split is not a function"))
            ELSE Returns(NullDate)
      [] OTHER -> Throws(NewTypeError("dateString.includes is not a function"))

\* calculateDaysBetween(startDate, endDate)
calculateDaysBetween(startDate, endDate, srv) ==
    MathCeil(Rat(GetTime(endDate, srv) - GetTime(startDate, srv), HoursPerDay))

\* validateDateRange(startDate, endDate) for two dates that are not null
validateDateRange(startDate, endDate, srv) ==
    LET Result(errors, duration) ==
            [isValid |-> Len(errors) = 0, errors |-> errors, duration |-> duration]
        Checked(duration) ==
            Result((IF GetTime(startDate, srv) >= GetTime(endDate, srv)
                    THEN <<"End date must be after start date">> ELSE <<>>)
                   \o (IF GetTime(startDate, srv) < GetTime(DateOf(srv.today), srv)
                       THEN <<"Start date cannot be in the past">> ELSE <<>>)
                   \o (IF Greater(duration, Num(365))
                       THEN <<"Trip duration cannot exceed 365 days">> ELSE <<>>)
                   \o (IF Less(duration, Num(1))
                       THEN <<"Trip must be at least 1 day">> ELSE <<>>),
                   duration)
    IN  Checked(calculateDaysBetween(startDate, endDate, srv))

-----------------------------------------------------------------------------
(* Request validator (validation.ts) *)

\* obj.key = value
SetKey(x, key, value) ==
    Obj([k \in DOMAIN x.v \cup {key} |-> IF k = key THEN value ELSE x.v[k]])

\* The date block of validateRequestBody, run when body.from and body.to are
\* both truthy and both parsed without an exception: the errors and warnings
\* it adds and the body it leaves (body.duration is assigned when it was
\* falsy and the dates give a truthy duration).
ValidateDates(b, startDate, endDate, srv) ==
    LET formatErrors ==
            (IF startDate.isNull
             THEN <<"Invalid start date format. Please use MM/DD/YYYY">> ELSE <<>>)
            \o (IF endDate.isNull
                THEN <<"Invalid end date format. Please use MM/DD/YYYY">> ELSE <<>>)
        Compared(rangeValidation, b2) ==
            [errors |-> formatErrors \o rangeValidation.errors,
             warnings |->
                IF /\ Truthy(rangeValidation.duration)
                   /\ Truthy(Get(b2, "duration"))
                   /\ Greater(MathAbs(Minus(ToNumber(Get(b2, "duration")),
                                            rangeValidation.duration)),
                              Num(0))
                THEN <<"Duration calculated from dates ("
                        \o NumberToString(rangeValidation.duration)
                        \o " days) differs from specified duration">>
                ELSE <<>>,
             body |-> b2]
        Ranged(rangeValidation) ==
            Compared(rangeValidation,
                     IF Truthy(rangeValidation.duration) /\ ~Truthy(Get(b, "duration"))
                     THEN SetKey(b, "duration", rangeValidation.duration) ELSE b)
    IN  IF startDate.isNull \/ endDate.isNull
        THEN [errors |-> formatErrors, warnings |-> <<>>, body |-> b]
        ELSE Ranged(validateDateRange(startDate, endDate, srv))

\* validateRequestBody(body): it returns {isValid, errors, warnings} (and the
\* body as the call left it), or throws a TypeError.
validateRequestBody(b, srv) ==
    LET Destination(destination) ==
            IF \/ ~Truthy(destination)
               \/ destination.t # "string"
               \/ Len(Trim(destination.v)) = 0
            THEN <<"Destination is required">> ELSE <<>>
        People(numberOfPeople, numPeople) ==
            [errors |->
                IF Truthy(numberOfPeople) /\ (IsNaN(numPeople) \/ Less(numPeople, Num(1)))
                THEN <<"Number of people must be at least 1">> ELSE <<>>,
             warnings |->
                IF Truthy(numberOfPeople) /\ ~(IsNaN(numPeople) \/ Less(numPeople, Num(1)))
                   /\ Greater(numPeople, Num(20))
                THEN <<"Large groups may require special arrangements">> ELSE <<>>]
        Budget(budgetAmount, budgetNum) ==
            [errors |->
                IF Truthy(budgetAmount) /\ (IsNaN(budgetNum) \/ LessEq(budgetNum, Num(0)))
                THEN <<"Budget amount must be a valid positive number">> ELSE <<>>,
             warnings |->
                IF Truthy(budgetAmount) /\ ~(IsNaN(budgetNum) \/ LessEq(budgetNum, Num(0)))
                   /\ Less(budgetNum, Num(50))
                THEN <<"Very low budget may limit available options">> ELSE <<>>]
        Duration(duration) ==
            [errors |->
                IF Truthy(duration) /\ duration.t = "number"
                   /\ (Less(duration, Num(1)) \/ Greater(duration, Num(365)))
                THEN <<"Duration must be between 1 and 365 days">> ELSE <<>>,
             warnings |->
                IF Truthy(duration) /\ duration.t = "number"
                   /\ ~(Less(duration, Num(1)) \/ Greater(duration, Num(365)))
                   /\ Greater(duration, Num(30))
                THEN <<"Long trips require more planning and may be more expensive">>
                ELSE <<>>]
        Currency(budgetCurrency) ==
            IF Truthy(budgetCurrency) /\ budgetCurrency.t = "string"
               /\ ~IsCurrencyCode(budgetCurrency.v)
            THEN <<"Invalid currency code format">> ELSE <<>>
        Interests(interests) ==
            IF Truthy(interests) /\ interests.t = "array" /\ Len(interests.v) > 10
            THEN <<"Too many interests selected may make planning difficult">> ELSE <<>>
        Result(errors, warnings, left) ==
            Returns([isValid |-> Len(errors) = 0, errors |-> errors,
                     warnings |-> warnings, body |-> left])
        Collected(people, budget, dates, duration) ==
            Result(Destination(Get(b, "destination")) \o people.errors \o budget.errors
                        \o dates.errors \o duration.errors
                        \o Currency(Get(b, "budgetCurrency")),
                   people.warnings \o budget.warnings \o dates.warnings
                        \o duration.warnings \o Interests(Get(b, "interests")),
                   dates.body)
        Checked(dates) ==
            Collected(People(Get(b, "numberOfPeople"), ParseInt(Get(b, "numberOfPeople"))),
                      Budget(Get(b, "budgetAmount"), ParseFloat(Get(b, "budgetAmount"))),
                      dates,
                      Duration(Get(dates.body, "duration")))
        Dated(startDate, endDate) ==
            IF ~startDate.returns THEN Throws(startDate.error)
            ELSE IF ~endDate.returns THEN Throws(endDate.error)
            ELSE Checked(ValidateDates(b, startDate.value, endDate.value, srv))
    IN  IF b.t \in {"null", "undefined"}
        THEN Throws(NewTypeError("Cannot read properties of " \o b.t
                                    \o " (reading 'destination')"))
        ELSE IF Truthy(Get(b, "from")) /\ Truthy(Get(b, "to"))
        THEN Dated(parseDateString(Get(b, "from")), parseDateString(Get(b, "to")))
        ELSE Checked([errors |->
                        IF ~Truthy(Get(b, "duration"))
                        THEN <<"Either specify travel dates or duration">> ELSE <<>>,
                      warnings |-> <<>>, body |-> b])

-----------------------------------------------------------------------------
(* Response validator (validation.ts) *)

\* typeof x === 'number' || x === undefined
NumberOrUndefined(x) == x.t \in {"number", "undefined"}

validateActivity(activity) ==
    /\ activity.t # "null"
    /\ TypeOf(activity) = "object"
    /\ HasKey(activity, "time")
    /\ HasKey(activity, "title")
    /\ HasKey(activity, "details")
    /\ Get(activity, "time").t = "string"
    /\ Get(activity, "title").t = "string"
    /\ Get(activity, "details").t = "string"
    /\ NumberOrUndefined(Get(activity, "durationMinutes"))
    /\ NumberOrUndefined(Get(activity, "costUSD"))

validateDayItinerary(day) ==
    /\ day.t # "null"
    /\ TypeOf(day) = "object"
    /\ HasKey(day, "day")
    /\ HasKey(day, "date")
    /\ HasKey(day, "activities")
    /\ Get(day, "day").t = "number"
    /\ Get(day, "date").t = "string"
    /\ Get(day, "activities").t = "array"
    /\ \A i \in 1..Len(Get(day, "activities").v) :
            validateActivity(Get(day, "activities").v[i])

validateCostSummary(costSummary) ==
    /\ costSummary.t # "null"
    /\ TypeOf(costSummary) = "object"
    /\ HasKey(costSummary, "totalCostUSD")
    /\ HasKey(costSummary, "dailyAverageCostUSD")
    /\ HasKey(costSummary, "costBreakdown")
    /\ Get(costSummary, "totalCostUSD").t = "number"
    /\ Get(costSummary, "dailyAverageCostUSD").t = "number"
    /\ TypeOf(Get(costSummary, "costBreakdown")) = "object"
    /\ LET budgetComparisonUSD == Get(costSummary, "budgetComparisonUSD")
       IN  \/ budgetComparisonUSD.t = "undefined"
           \/ /\ TypeOf(budgetComparisonUSD) = "object"
              /\ budgetComparisonUSD.t # "null"
              /\ HasKey(budgetComparisonUSD, "budgetAmountUSD")
              /\ HasKey(budgetComparisonUSD, "isOverBudget")
              /\ Get(budgetComparisonUSD, "budgetAmountUSD").t = "number"
              /\ Get(budgetComparisonUSD, "isOverBudget").t = "boolean"

\* A response validator that accepts an itinerary without days.
validateTripResponse_AllowsNoDays(data) ==
    /\ data.t # "null"
    /\ TypeOf(data) = "object"
    /\ HasKey(data, "itinerary")
    /\ HasKey(data, "packing_list")
    /\ Get(data, "itinerary").t = "array"
    /\ \A i \in 1..Len(Get(data, "itinerary").v) :
            validateDayItinerary(Get(data, "itinerary").v[i])
    /\ Get(data, "packing_list").t = "array"
    /\ \A i \in 1..Len(Get(data, "packing_list").v) :
            Get(data, "packing_list").v[i].t = "string"
    /\ \/ Get(data, "costSummary").t = "undefined"
       \/ validateCostSummary(Get(data, "costSummary"))

validateTripResponse(data) ==
    /\ data.t # "null"
    /\ TypeOf(data) = "object"
    /\ HasKey(data, "itinerary")
    /\ HasKey(data, "packing_list")
    /\ Get(data, "itinerary").t = "array"
    /\ Len(Get(data, "itinerary").v) > 0
    /\ \A i \in 1..Len(Get(data, "itinerary").v) :
            validateDayItinerary(Get(data, "itinerary").v[i])
    /\ Get(data, "packing_list").t = "array"
    /\ \A i \in 1..Len(Get(data, "packing_list").v) :
            Get(data, "packing_list").v[i].t = "string"
    /\ \/ Get(data, "costSummary").t = "undefined"
       \/ validateCostSummary(Get(data, "costSummary"))

-----------------------------------------------------------------------------
(* Currency table and cost functions (cost-utils.ts) *)

\* DEFAULT_EXCHANGE_RATES, for the currencies the model's requests name.
DEFAULT_EXCHANGE_RATES ==
    [code \in {"USD", "EUR", "GBP", "JPY", "CAD"} |->
        CASE code = "USD" -> Num(1)
          [] code = "EUR" -> Rat(85, 100)
          [] code = "GBP" -> Rat(73, 100)
          [] code = "JPY" -> Num(110)
          [] code = "CAD" -> Rat(125, 100)]

EmptyCache == [code \in {} |-> 0]
NullTime == [isNull |-> TRUE, time |-> 0]
TimeOf(t) == [isNull |-> FALSE, time |-> t]

\* Cache entries whose rates depend on the time they are written at.
DefaultCacheEntries_Drifting(now) ==
    [code \in DOMAIN DEFAULT_EXCHANGE_RATES |->
        [code |-> code, rate |-> Times(DEFAULT_EXCHANGE_RATES[code], Num(1 + now)),
         lastUpdated |-> now]]

\* The cache entries written from DEFAULT_EXCHANGE_RATES at time now.
DefaultCacheEntries(now) ==
    [code \in DOMAIN DEFAULT_EXCHANGE_RATES |->
        [code |-> code, rate |-> DEFAULT_EXCHANGE_RATES[code], lastUpdated |-> now]]

\* The rates of a cache: code -> rateInfo.rate
RatesOf(cache) == [code \in DOMAIN cache |-> cache[code].rate]

\* RATE_CACHE_DURATION, one hour, in minutes
RATE_CACHE_DURATION == 60

\* getExchangeRates(): the rates it resolves with and the cache it leaves;
\* it has no await, so that it runs as one step.
getExchangeRates(cache, last, now) ==
    IF ~last.isNull /\ now - last.time < RATE_CACHE_DURATION
    THEN [rates |-> RatesOf(cache), cache |-> cache, last |-> last]
    ELSE [rates |-> DEFAULT_EXCHANGE_RATES,
          cache |-> [code \in DOMAIN cache \cup DOMAIN DEFAULT_EXCHANGE_RATES |->
                        IF code \in DOMAIN DEFAULT_EXCHANGE_RATES
                        THEN DefaultCacheEntries(now)[code] ELSE cache[code]],
          last |-> TimeOf(now)]

\* getExchangeRatesSync(): the rates it returns and the cache it leaves.
getExchangeRatesSync(cache, last, now) ==
    LET Read(cache2) ==
            [rates |-> RatesOf(cache2), cache |-> cache2,
             last |-> IF DOMAIN cache = {} THEN TimeOf(now) ELSE last]
    IN  Read(IF DOMAIN cache = {}
             THEN [code \in DOMAIN cache \cup DOMAIN DEFAULT_EXCHANGE_RATES |->
                        DefaultCacheEntries(now)[code]]
             ELSE cache)

\* rates[currency] || 1
RateFor(rates, currency) ==
    LET Rate(key) == IF key \in DOMAIN rates /\ Truthy(rates[key]) THEN rates[key] ELSE Num(1)
    IN  Rate(ToStringJS(currency))

\* A conversion to USD that multiplies by the rate.
convertToUSD_Multiplies(amount, fromCurrency, rates) ==
    Times(amount, RateFor(rates, fromCurrency))

\* convertToUSD(amount, fromCurrency), given the rates read
convertToUSD(amount, fromCurrency, rates) == Divide(amount, RateFor(rates, fromCurrency))

\* convertFromUSD(amountUSD, toCurrency), given the rates read
convertFromUSD(amountUSD, toCurrency, rates) == Times(amountUSD, RateFor(rates, toCurrency))

\* calculateActivityCost: activity.costUSD || 0
calculateActivityCost(activity) ==
    IF Truthy(Get(activity, "costUSD")) THEN Get(activity, "costUSD") ELSE Num(0)

RECURSIVE SumActivityCosts(_)
SumActivityCosts(activities) ==
    IF Len(activities) = 0 THEN Num(0)
    ELSE Plus(SumActivityCosts(SubSeq(activities, 1, Len(activities) - 1)),
              calculateActivityCost(activities[Len(activities)]))

calculateDailyCost(day) == SumActivityCosts(Get(day, "activities").v)

RECURSIVE calculateTotalCost(_)
calculateTotalCost(itinerary) ==
    IF Len(itinerary) = 0 THEN Num(0)
    ELSE Plus(calculateTotalCost(SubSeq(itinerary, 1, Len(itinerary) - 1)),
              calculateDailyCost(itinerary[Len(itinerary)]))

\* A categorizer that looks for the keywords of activities before those of
\* transportation.
categorizeCost_ActivitiesFirst(activity) ==
    LET Category(title, details) ==
        IF \/ Includes(title, "hotel") \/ Includes(title, "accommodation")
           \/ Includes(title, "check-in")
           \/ Includes(details, "hotel") \/ Includes(details, "accommodation")
        THEN "accommodation"
        ELSE IF \/ Includes(title, "restaurant") \/ Includes(title, "lunch")
                \/ Includes(title, "dinner") \/ Includes(title, "breakfast")
                \/ Includes(title, "food") \/ Includes(title, "cafe")
                \/ Includes(details, "restaurant") \/ Includes(details, "meal")
                \/ Includes(details, "food")
        THEN "food"
        ELSE IF \/ Includes(title, "museum") \/ Includes(title, "tour")
                \/ Includes(title, "ticket") \/ Includes(title, "attraction")
                \/ Includes(title, "activity")
                \/ Includes(details, "entrance") \/ Includes(details, "admission")
        THEN "activities"
        ELSE IF \/ Includes(title, "transport") \/ Includes(title, "taxi")
                \/ Includes(title, "bus") \/ Includes(title, "train")
                \/ Includes(title, "flight") \/ Includes(title, "metro")
                \/ Includes(details, "transport") \/ Includes(details, "travel")
        THEN "transportation"
        ELSE "other"
    IN  Category(ToLowerCase(Get(activity, "title").v),
                 ToLowerCase(Get(activity, "details").v))

categorizeCost(activity) ==
    LET Category(title, details) ==
        IF \/ Includes(title, "hotel") \/ Includes(title, "accommodation")
           \/ Includes(title, "check-in")
           \/ Includes(details, "hotel") \/ Includes(details, "accommodation")
        THEN "accommodation"
        ELSE IF \/ Includes(title, "restaurant") \/ Includes(title, "lunch")
                \/ Includes(title, "dinner") \/ Includes(title, "breakfast")
                \/ Includes(title, "food") \/ Includes(title, "cafe")
                \/ Includes(details, "restaurant") \/ Includes(details, "meal")
                \/ Includes(details, "food")
        THEN "food"
        ELSE IF \/ Includes(title, "transport") \/ Includes(title, "taxi")
                \/ Includes(title, "bus") \/ Includes(title, "train")
                \/ Includes(title, "flight") \/ Includes(title, "metro")
                \/ Includes(details, "transport") \/ Includes(details, "travel")
        THEN "transportation"
        ELSE IF \/ Includes(title, "museum") \/ Includes(title, "tour")
                \/ Includes(title, "ticket") \/ Includes(title, "attraction")
                \/ Includes(title, "activity")
                \/ Includes(details, "entrance") \/ Includes(details, "admission")
        THEN "activities"
        ELSE "other"
    IN  Category(ToLowerCase(Get(activity, "title").v),
                 ToLowerCase(Get(activity, "details").v))

Categories == {"accommodation", "food", "activities", "transportation", "other"}

\* All activities of an itinerary, day after day.
RECURSIVE AllActivities(_)
AllActivities(itinerary) ==
    IF Len(itinerary) = 0 THEN <<>>
    ELSE Get(Head(itinerary), "activities").v \o AllActivities(Tail(itinerary))

\* A breakdown that adds the cost of an activity of no known category to
\* every bucket.
RECURSIVE BucketSum_CountsUncategorized(_, _)
BucketSum_CountsUncategorized(activities, category) ==
    IF Len(activities) = 0 THEN Num(0)
    ELSE Plus(BucketSum_CountsUncategorized(SubSeq(activities, 1, Len(activities) - 1),
                                            category),
              IF categorizeCost(activities[Len(activities)]) \in {category, "other"}
              THEN calculateActivityCost(activities[Len(activities)])
              ELSE Num(0))

\* The sum of the costs of the activities of one category, in order.
RECURSIVE BucketSum(_, _)
BucketSum(activities, category) ==
    IF Len(activities) = 0 THEN Num(0)
    ELSE Plus(BucketSum(SubSeq(activities, 1, Len(activities) - 1), category),
              IF categorizeCost(activities[Len(activities)]) = category
              THEN calculateActivityCost(activities[Len(activities)])
              ELSE Num(0))

calculateCostBreakdown(itinerary) ==
    [category \in Categories |-> BucketSum(AllActivities(itinerary), category)]

\* A normalizer that keeps the daily cost the provider's payload carries.
addDailyCostsToItinerary_TrustsUpstream(itinerary) ==
    [i \in 1..Len(itinerary) |->
        IF HasKey(itinerary[i], "dailyCostUSD") THEN itinerary[i]
        ELSE SetKey(itinerary[i], "dailyCostUSD", calculateDailyCost(itinerary[i]))]

\* addDailyCostsToItinerary: { ...day, dailyCostUSD: calculateDailyCost(day) }
addDailyCostsToItinerary(itinerary) ==
    [i \in 1..Len(itinerary) |->
        SetKey(itinerary[i], "dailyCostUSD", calculateDailyCost(itinerary[i]))]

\* generateCostSummary(tripResponse, budgetAmount, budgetCurrency): the summary
\* and the currency cache it leaves (convertToUSD reads the rates).
generateCostSummary(tripResponse, budgetAmount, budgetCurrency, cache, last, now) ==
    LET hasBudget == Truthy(budgetAmount) /\ Truthy(budgetCurrency)
        Comparison(budgetAmountNum, budgetAmountUSD, differenceUSD) ==
            Obj([budgetAmountUSD |-> budgetAmountUSD,
                 originalBudgetAmount |-> budgetAmountNum,
                 originalCurrency |-> budgetCurrency,
                 isOverBudget |-> Bool(Greater(differenceUSD, Num(0))),
                 differenceUSD |-> differenceUSD,
                 differencePercentage |->
                    Times(Divide(differenceUSD, budgetAmountUSD), Num(100))])
        Converted(totalCostUSD, budgetAmountNum, budgetAmountUSD) ==
            Comparison(budgetAmountNum, budgetAmountUSD, Minus(totalCostUSD, budgetAmountUSD))
        Budgeted(totalCostUSD, budgetAmountNum, rates) ==
            Converted(totalCostUSD, budgetAmountNum,
                      convertToUSD(budgetAmountNum, budgetCurrency, rates))
        Totalled(itinerary, totalCostUSD, read) ==
            [summary |->
                Obj([totalCostUSD |-> totalCostUSD,
                     dailyAverageCostUSD |-> Divide(totalCostUSD, Num(Len(itinerary))),
                     budgetComparisonUSD |->
                        IF hasBudget
                        THEN Budgeted(totalCostUSD, ParseFloat(budgetAmount), read.rates)
                        ELSE Undefined,
                     costBreakdown |-> Obj(calculateCostBreakdown(itinerary))]),
             cache |-> IF hasBudget THEN read.cache ELSE cache,
             last |-> IF hasBudget THEN read.last ELSE last]
    IN  Totalled(Get(tripResponse, "itinerary").v,
                 calculateTotalCost(Get(tripResponse, "itinerary").v),
                 getExchangeRatesSync(cache, last, now))

-----------------------------------------------------------------------------
(* JSON text *)

\* JSON.stringify(x): numbers that are no rational print as null, keys whose
\* value is undefined are left out.
RECURSIVE JsonStringify(_)
RECURSIVE JsonElements(_)
RECURSIVE JsonMembers(_, _)
JsonElements(a) ==
    IF Len(a) = 0 THEN ""
    ELSE (IF Head(a).t = "undefined" THEN "null" ELSE JsonStringify(Head(a)))
            \o (IF Len(a) = 1 THEN "" ELSE "," \o JsonElements(Tail(a)))
JsonMembers(o, keys) ==
    IF keys = {} THEN ""
    ELSE LET Member(k) ==
                "\"" \o k \o "\":" \o JsonStringify(o[k])
                    \o (IF keys = {k} THEN "" ELSE "," \o JsonMembers(o, keys \ {k}))
         IN  Member(CHOOSE x \in keys : TRUE)
JsonStringify(x) ==
    CASE x.t = "string" -> "\"" \o x.v \o "\""
      [] x.t = "number" -> (IF x.d = 0 THEN "null" ELSE NumberToString(x))
      [] x.t = "boolean" -> (IF x.v THEN "true" ELSE "false")
      [] x.t = "null" -> "null"
      [] x.t = "array" -> "[" \o JsonElements(x.v) \o "]"
      [] x.t = "object" ->
            "{" \o JsonMembers(x.v, {k \in DOMAIN x.v : x.v[k].t # "undefined"}) \o "}"
      [] OTHER -> "null"

\* JSON.parse(text) for the texts the providers of the model return: the
\* value whose JSON text it is, or a SyntaxError.
JSONParse(text, documents) ==
    LET Parsed(matches) ==
            IF matches = {}
            THEN Throws(Thrown("Error", "SyntaxError", "Unexpected token", 0, 0, 0))
            ELSE Returns(documents[CHOOSE i \in matches : TRUE])
    IN  Parsed({i \in 1..Len(documents) : JsonStringify(documents[i]) = text})

\* What the client reads from NextResponse.json(x): JSON.parse(JSON.stringify(x)).
RECURSIVE ToJSON(_)
ToJSON(x) ==
    CASE x.t = "number" -> (IF x.d = 0 THEN Null ELSE x)
      [] x.t = "undefined" -> Null
      [] x.t = "array" -> Arr([i \in 1..Len(x.v) |-> ToJSON(x.v[i])])
      [] x.t = "object" ->
            Obj([k \in {kk \in DOMAIN x.v : x.v[kk].t # "undefined"} |-> ToJSON(x.v[k])])
      [] OTHER -> x

-----------------------------------------------------------------------------
(* Inputs: request bodies, the server's environment, provider behaviour *)

\* An object literal with the keys whose value is given (not Absent).
Absent == [t |-> "absent"]
ObjectOf(fields) == Obj([k \in {kk \in DOMAIN fields : fields[kk] # Absent} |-> fields[k]])

\* The body of a request: text that is no JSON (req.json() rejects), or the
\* value of its JSON text.
MalformedBody == [malformed |-> TRUE, value |-> Undefined]
BodyOf(value) == [malformed |-> FALSE, value |-> value]

Destinations == {Absent, Str("Paris")}
\* duration, from, to
TravelTimes ==
    {<<Absent, Absent, Absent>>,
     <<Num(3), Absent, Absent>>,
     <<Str("5"), Absent, Absent>>,
     <<Str("1000"), Absent, Absent>>,
     <<Absent, Str("03/01/2027"), Str("03/04/2027")>>,
     <<Num(2), Str("03/01/2027"), Str("03/04/2027")>>,
     <<Absent, Str("03/04/2027"), Str("03/01/2027")>>,
     <<Absent, Str("11/07/2027"), Str("11/06/2028")>>,
     <<Num(3), Num(20270301), Absent>>}
PartySizes == {Absent, Str("2"), Str("0"), Str(""), Null}
\* budgetAmount, budgetCurrency
Budgets ==
    {<<Absent, Absent>>, <<Str("800"), Str("USD")>>, <<Str("100"), Str("EUR")>>,
     <<Str("800"), Absent>>}
InterestLists == {Absent, Num(7)}

RequestObjects ==
    {ObjectOf([destination |-> dest, duration |-> when[1], from |-> when[2], to |-> when[3],
               numberOfPeople |-> people, budgetAmount |-> budget[1],
               budgetCurrency |-> budget[2], interests |-> interests]) :
        dest \in Destinations, when \in TravelTimes, people \in PartySizes,
        budget \in Budgets, interests \in InterestLists}

RequestBodies ==
    {MalformedBody, BodyOf(Null), BodyOf(Str("Paris"))} \cup {BodyOf(o) : o \in RequestObjects}

\* The server's calendar day and the days between which its zone is on
\* summer time (none when both are 0).
Today == DaysFromCivil(2026, 11, 1)
Servers ==
    {[today |-> Today, dstStart |-> 0, dstEnd |-> 0],
     [today |-> Today, dstStart |-> DaysFromCivil(2027, 3, 14),
      dstEnd |-> DaysFromCivil(2027, 11, 7)]}

ApiKeys == {Undefined, Str(""), Str("sk-or-v1-0123")}

\* The currency cache a request finds: never filled, or filled by an earlier
\* request.
CacheStates ==
    {[cache |-> EmptyCache, last |-> NullTime],
     [cache |-> DefaultCacheEntries(0), last |-> TimeOf(0)]}

\* The JSON documents a provider may answer with.
Activity(time, title, details, costUSD) ==
    ObjectOf([time |-> Str(time), title |-> Str(title), details |-> Str(details),
              costUSD |-> costUSD])
Day(day, date, activities) ==
    Obj([day |-> Num(day), date |-> Str(date), activities |-> Arr(activities)])

HotelCheckIn == Activity("14:00", "Hotel check-in", "Leave the bags", Num(120))
Dinner == Activity("19:30", "Dinner at a local restaurant", "Tasting menu", Rat(81, 2))
MuseumTour == Activity("10:00", "Louvre museum tour", "Guided visit", Num(25))
FreeTime == Activity("16:00", "Free time", "Walk along the river", Absent)
Refund == Activity("09:00", "Voucher", "Discount", Num(-20))

TripDocument ==
    Obj([itinerary |-> Arr(<<Day(1, "01/03/2027", <<HotelCheckIn, Dinner>>),
                             Day(2, "02/03/2027", <<MuseumTour, FreeTime>>)>>),
         packing_list |-> Arr(<<Str("passport")>>)])
RestDayDocument ==
    Obj([itinerary |-> Arr(<<Day(1, "01/03/2027", <<>>)>>), packing_list |-> Arr(<<>>)])
UpstreamCostsDocument ==
    Obj([itinerary |-> Arr(<<SetKey(Day(2, "02/03/2027", <<Refund>>), "dailyCostUSD", Num(999)),
                             Day(1, "01/03/2027", <<MuseumTour>>)>>),
         packing_list |-> Arr(<<Str("umbrella")>>),
         costSummary |-> Obj([totalCostUSD |-> Num(1), dailyAverageCostUSD |-> Num(1),
                              costBreakdown |-> Obj([food |-> Num(1)])])])
NoPackingListDocument ==
    Obj([itinerary |-> Arr(<<Day(1, "01/03/2027", <<HotelCheckIn>>)>>)])
NoDaysDocument == Obj([itinerary |-> Arr(<<>>), packing_list |-> Arr(<<>>)])
TextCostDocument ==
    Obj([itinerary |-> Arr(<<Day(1, "01/03/2027",
                                 <<Activity("10:00", "Boat tour", "Harbour", Str("12"))>>)>>),
         packing_list |-> Arr(<<>>)])

Documents ==
    <<TripDocument, RestDayDocument, UpstreamCostsDocument, NoPackingListDocument,
      NoDaysDocument, TextCostDocument, Obj([error |-> Str("model busy")]), Null, Arr(<<>>)>>

\* Texts that are no JSON.
ProseTexts == {"Here is your itinerary: {\"itinerary\": []}", "{\"itinerary\": [", " "}

ProviderTexts == {JsonStringify(Documents[i]) : i \in 1..Len(Documents)} \cup ProseTexts

\* The content of a completion: text, an empty string, null or no message.
Contents == {Str(text) : text \in ProviderTexts} \cup {Str(""), Null, Undefined}

\* The failures of a provider call: an Error with a message and possibly an
\* HTTP status in one of the fields status, statusCode, response.status; a
\* thrown string; a thrown plain object with a status.
ErrorMessages ==
    {"Rate limit reached for model", "rate limit exceeded, retry later",
     "Service Unavailable", "503 status code (no body)", "Model overloaded",
     "Invalid API Key", "Incorrect API key provided", "Connection timeout",
     "Request timed out.", "Connection error.", "Groq API error", "Bad request: malformed body",
     ""}
StatusShapes ==
    {<<0, 0, 0>>}
    \cup {<<c, 0, 0>> : c \in {400, 401, 429, 500, 502, 503}}
    \cup {<<0, c, 0>> : c \in {401, 429, 503}}
    \cup {<<0, 0, c>> : c \in {401, 429, 503}}
ProviderErrors ==
    {NewError(m) : m \in ErrorMessages}
    \cup {Thrown("Error", "Error", m, sh[1], sh[2], sh[3]) :
            m \in {"Connection error.", "Service Unavailable"}, sh \in StatusShapes}
    \cup {Thrown("string", "", m, 0, 0, 0) : m \in {"HTTP 502 Bad Gateway", "socket hang up"}}
    \cup {Thrown("object", "", "", sh[1], sh[2], sh[3]) : sh \in {<<0, 0, 503>>, <<0, 0, 404>>}}

GroqOutcomes ==
    {Resolves(c) : c \in Contents} \cup {ResolvesNoChoices} \cup {Rejects(e) : e \in ProviderErrors}

\* The fallback provider answers with fewer different texts.
FallbackContents ==
    {Str(JsonStringify(TripDocument)), Str(JsonStringify(NoPackingListDocument)),
     Str("Sure! Here is the plan."), Str(""), Null, Undefined}
FallbackErrors ==
    {NewError("OpenRouter API error: 429 rate limit exceeded"), NewError("fetch failed"),
     Thrown("Error", "Error", "Provider returned error", 503, 0, 0)}
OpenRouterOutcomes ==
    {Resolves(c) : c \in FallbackContents} \cup {ResolvesNoChoices}
    \cup {Rejects(e) : e \in FallbackErrors}

-----------------------------------------------------------------------------
(* The POST handler *)

NoValidation == [ran |-> FALSE, isValid |-> FALSE, errors |-> <<>>, warnings |-> <<>>]
NoPrompt == [built |-> FALSE]

Init ==
    /\ pc = "start"
    /\ body \in RequestBodies
    /\ OPENROUTER_API_KEY \in ApiKeys
    /\ server \in Servers
    /\ clock = 0
    /\ \E c \in CacheStates : exchangeRatesCache = c.cache /\ lastRateUpdate = c.last
    /\ validation = NoValidation
    /\ prompt = NoPrompt
    /\ stages = <<>>
    /\ calls = <<>>
    /\ groqOutcome = Pending
    /\ openRouterOutcome = Pending
    /\ lastError = NoError
    /\ raw = ""
    /\ parsed = Undefined
    /\ thrown = NoError
    /\ response = NoResponse

\* return NextResponse.json(...): the invocation is over.
Respond(r) == response' = r /\ pc' = "done"

\* An exception that leaves the handler: no response is produced.
Catch_Escapes(error) == thrown' = error /\ pc' = "done" /\ UNCHANGED response

\* An exception reaches the catch block of POST.
Catch(error) == thrown' = error /\ Respond(CatchResponse(error))

\* body = await req.json(), with its own try/catch.
ReadBody ==
    /\ pc = "start"
    /\ IF body.malformed
       THEN Respond(ErrorResponse(400, "Invalid JSON in request body", Undefined))
       ELSE pc' = "validate" /\ UNCHANGED response
    /\ UNCHANGED <<body, OPENROUTER_API_KEY, server, validation, prompt, stages, calls,
                   groqOutcome, openRouterOutcome, lastError, raw, parsed, thrown,
                   clock, exchangeRatesCache, lastRateUpdate>>

\* The error list of the validator as the details of a response.
ErrorList(errors) == Arr([i \in 1..Len(errors) |-> Str(errors[i])])

\* The response to an invalid request with the errors left out and the
\* status of a server fault.
InvalidRequestResponse_NoDetails(errors) ==
    ErrorResponse(500, "Invalid request parameters", Undefined)

\* The response to a request the validator found errors in.
InvalidRequestResponse(errors) ==
    ErrorResponse(400, "Invalid request parameters", ErrorList(errors))

\* const validation = validateRequestBody(body); if (!validation.isValid) return 400
ValidateRequest ==
    /\ pc = "validate"
    /\ stages' = Append(stages, "requestValidation")
    /\ LET Settle(result) ==
            IF ~result.returns
            THEN /\ Catch(result.error)
                 /\ UNCHANGED <<body, validation>>
            ELSE /\ validation' = [ran |-> TRUE, isValid |-> result.value.isValid,
                                   errors |-> result.value.errors,
                                   warnings |-> result.value.warnings]
                 /\ body' = [body EXCEPT !.value = result.value.body]
                 /\ IF result.value.isValid
                    THEN pc' = "prompt" /\ UNCHANGED <<response, thrown>>
                    ELSE /\ Respond(InvalidRequestResponse(result.value.errors))
                         /\ UNCHANGED thrown
       IN  Settle(validateRequestBody(body.value, server))
    /\ UNCHANGED <<OPENROUTER_API_KEY, server, prompt, calls, groqOutcome, openRouterOutcome,
                   lastError, raw, parsed, clock, exchangeRatesCache, lastRateUpdate>>

\* const { ..., numberOfPeople = "1", ... } = body
NumberOfPeopleOf(b) ==
    IF Get(b, "numberOfPeople").t = "undefined" THEN Str("1") ELSE Get(b, "numberOfPeople")

\* The destructuring of the body, interestsArr and buildPrompt(...): the
\* arguments of the prompt, or the TypeError of interests.split or
\* startDate.split on a value that has no such method.
buildPrompt(b) ==
    LET interests == Get(b, "interests")
        from == Get(b, "from")
    IN  IF Truthy(interests) /\ interests.t \notin {"array", "string"}
        THEN Throws(NewTypeError("interests.split is not a function"))
        ELSE IF Truthy(from) /\ from.t # "string"
        THEN Throws(NewTypeError("startDate.split is not a function"))
        ELSE Returns([built |-> TRUE,
                      dest |-> Get(b, "destination"),
                      days |-> Get(b, "duration"),
                      budgetAmount |-> IF Truthy(Get(b, "budgetAmount"))
                                       THEN Get(b, "budgetAmount") ELSE Str(""),
                      budgetCurrency |-> IF Truthy(Get(b, "budgetCurrency"))
                                         THEN Get(b, "budgetCurrency") ELSE Str("USD"),
                      numberOfPeople |-> NumberOfPeopleOf(b),
                      startDate |-> from])

BuildPrompt ==
    /\ pc = "prompt"
    /\ LET result == buildPrompt(body.value)
       IN  IF result.returns
           THEN prompt' = result.value /\ pc' = "callGroq" /\ UNCHANGED <<response, thrown>>
           ELSE Catch(result.error) /\ UNCHANGED prompt
    /\ UNCHANGED <<body, OPENROUTER_API_KEY, server, validation, stages, calls, groqOutcome,
                   openRouterOutcome, lastError, raw, parsed, clock, exchangeRatesCache,
                   lastRateUpdate>>

\* callAIWithFallback starts: callGroqAPI issues groq.chat.completions.create.
CallGroq ==
    /\ pc = "callGroq"
    /\ stages' = Append(stages, "providerOrchestration")
    /\ calls' = Append(calls, "groq")
    /\ pc' = "awaitGroq"
    /\ UNCHANGED <<body, OPENROUTER_API_KEY, server, validation, prompt, groqOutcome,
                   openRouterOutcome, lastError, raw, parsed, thrown, response, clock,
                   exchangeRatesCache, lastRateUpdate>>

\* callAIWithFallback falling back on every retryable failure, whether or not
\* a fallback key is configured.
AfterGroq_IgnoresKey(result, key) ==
    IF result.returns THEN "return"
    ELSE IF shouldFallback(result.error) THEN "callOpenRouter"
    ELSE "throw"

\* callAIWithFallback asking the fallback provider as well after the primary
\* has answered.
AfterGroq_AlwaysBoth(result, key) ==
    IF Truthy(key) THEN "callOpenRouter"
    ELSE IF result.returns THEN "return"
    ELSE "throw"

\* What callAIWithFallback does once callGroqAPI has returned or thrown:
\* it returns the text, calls the fallback, or rethrows.
AfterGroq(result, key) ==
    IF result.returns THEN "return"
    ELSE IF shouldFallback(result.error) /\ Truthy(key) THEN "callOpenRouter"
    ELSE "throw"

\* callAIWithFallback throwing the fallback's error.
FallbackFailure_Latest(primaryError, fallbackError) == fallbackError

\* The error callAIWithFallback throws when the fallback failed too.
FallbackFailure(primaryError, fallbackError) == primaryError

\* The primary call settles.
GroqSettles ==
    /\ pc = "awaitGroq"
    /\ \E outcome \in GroqOutcomes :
        LET result == callGroqAPI(outcome)
            next == AfterGroq(result, OPENROUTER_API_KEY)
        IN  /\ groqOutcome' = outcome
            /\ lastError' = IF result.returns THEN lastError ELSE result.error
            /\ CASE next = "return" ->
                        raw' = result.value /\ pc' = "parse" /\ UNCHANGED <<thrown, response>>
                 [] next = "callOpenRouter" ->
                        pc' = "callOpenRouter" /\ UNCHANGED <<raw, thrown, response>>
                 [] OTHER ->
                        Catch(result.error) /\ UNCHANGED raw
    /\ UNCHANGED <<body, OPENROUTER_API_KEY, server, validation, prompt, stages, calls,
                   openRouterOutcome, parsed, clock, exchangeRatesCache, lastRateUpdate>>

\* callOpenRouterAPI issues openrouter.createChatCompletion.
CallOpenRouter ==
    /\ pc = "callOpenRouter"
    /\ calls' = Append(calls, "openrouter")
    /\ pc' = "awaitOpenRouter"
    /\ UNCHANGED <<body, OPENROUTER_API_KEY, server, validation, prompt, stages, groqOutcome,
                   openRouterOutcome, lastError, raw, parsed, thrown, response, clock,
                   exchangeRatesCache, lastRateUpdate>>

\* The fallback call settles.
OpenRouterSettles ==
    /\ pc = "awaitOpenRouter"
    /\ \E outcome \in OpenRouterOutcomes :
        LET result == callOpenRouterAPI(outcome)
        IN  /\ openRouterOutcome' = outcome
            /\ IF result.returns
               THEN raw' = result.value /\ pc' = "parse" /\ UNCHANGED <<thrown, response>>
               ELSE Catch(FallbackFailure(lastError, result.error)) /\ UNCHANGED raw
    /\ UNCHANGED <<body, OPENROUTER_API_KEY, server, validation, prompt, stages, calls,
                   groqOutcome, lastError, parsed, clock, exchangeRatesCache, lastRateUpdate>>

\* A handler that asks the fallback provider again when the primary's text
\* is no JSON.
ParseJSON_RetriesOtherProvider ==
    /\ pc = "parse"
    /\ stages' = Append(stages, "jsonParsing")
    /\ LET result == JSONParse(raw, Documents)
       IN  IF result.returns
           THEN parsed' = result.value /\ pc' = "validateResponse" /\ UNCHANGED response
           ELSE IF calls = <<"groq">> /\ Truthy(OPENROUTER_API_KEY)
           THEN pc' = "callOpenRouter" /\ UNCHANGED <<parsed, response>>
           ELSE /\ Respond(ErrorResponse(500, "Invalid response format from AI service",
                                         Str("The AI returned malformed JSON")))
                /\ UNCHANGED parsed
    /\ UNCHANGED <<body, OPENROUTER_API_KEY, server, validation, prompt, calls, groqOutcome,
                   openRouterOutcome, lastError, raw, thrown, clock, exchangeRatesCache,
                   lastRateUpdate>>

\* parsed = JSON.parse(raw), with its own try/catch.
ParseJSON ==
    /\ pc = "parse"
    /\ stages' = Append(stages, "jsonParsing")
    /\ LET result == JSONParse(raw, Documents)
       IN  IF result.returns
           THEN parsed' = result.value /\ pc' = "validateResponse" /\ UNCHANGED response
           ELSE /\ Respond(ErrorResponse(500, "Invalid response format from AI service",
                                         Str("The AI returned malformed JSON")))
                /\ UNCHANGED parsed
    /\ UNCHANGED <<body, OPENROUTER_API_KEY, server, validation, prompt, calls, groqOutcome,
                   openRouterOutcome, lastError, raw, thrown, clock, exchangeRatesCache,
                   lastRateUpdate>>

\* A handler that logs an invalid structure and goes on.
ValidateResponse_NoReturn ==
    /\ pc = "validateResponse"
    /\ stages' = Append(stages, "responseValidation")
    /\ pc' = "cost"
    /\ UNCHANGED <<body, OPENROUTER_API_KEY, server, validation, prompt, calls, groqOutcome,
                   openRouterOutcome, lastError, raw, parsed, thrown, response, clock,
                   exchangeRatesCache, lastRateUpdate>>

\* if (!validateTripResponse(parsed)) return 500
ValidateResponse ==
    /\ pc = "validateResponse"
    /\ stages' = Append(stages, "responseValidation")
    /\ IF validateTripResponse(parsed)
       THEN pc' = "cost" /\ UNCHANGED response
       ELSE Respond(ErrorResponse(500, "Invalid itinerary structure",
                                  Str("The AI response does not match the expected format")))
    /\ UNCHANGED <<body, OPENROUTER_API_KEY, server, validation, prompt, calls, groqOutcome,
                   openRouterOutcome, lastError, raw, parsed, thrown, clock,
                   exchangeRatesCache, lastRateUpdate>>

\* { ...parsed, itinerary: itineraryWithCosts, costSummary, numberOfPeople }
EnhancedResponse(data, itineraryWithCosts, costSummary, numberOfPeople) ==
    SetKey(SetKey(SetKey(data, "itinerary", Arr(itineraryWithCosts)),
                  "costSummary", costSummary),
           "numberOfPeople", ParseInt(numberOfPeople))

\* addDailyCostsToItinerary, generateCostSummary, the enhanced response.
NormalizeCosts ==
    /\ pc = "cost"
    /\ stages' = Append(stages, "costNormalization")
    /\ LET Enhance(itineraryWithCosts, summary) ==
            /\ Respond(SuccessResponse(ToJSON(
                    EnhancedResponse(parsed, itineraryWithCosts, summary.summary,
                                     NumberOfPeopleOf(body.value)))))
            /\ exchangeRatesCache' = summary.cache
            /\ lastRateUpdate' = summary.last
           Summarize(itineraryWithCosts) ==
            Enhance(itineraryWithCosts,
                    generateCostSummary(
                        SetKey(parsed, "itinerary", Arr(itineraryWithCosts)),
                        Get(body.value, "budgetAmount"), Get(body.value, "budgetCurrency"),
                        exchangeRatesCache, lastRateUpdate, clock))
       IN  Summarize(addDailyCostsToItinerary(Get(parsed, "itinerary").v))
    /\ UNCHANGED <<body, OPENROUTER_API_KEY, server, validation, prompt, calls, groqOutcome,
                   openRouterOutcome, lastError, raw, parsed, thrown, clock>>

\* The JSON values validateTripResponse is applied to: an itinerary document
\* with every field of the document, of a day, of an activity, of the cost
\* summary and of the budget comparison in turn replaced by a value of
\* another type or left out, and documents whose activities fall into the
\* five cost categories.
ResponseValues ==
    LET Wrong == {Null, Str("x"), Num(1), Bool(TRUE), Arr(<<>>), Obj([a |-> Num(1)])}
        Without(o, key) == Obj([k \in DOMAIN o.v \ {key} |-> o.v[k]])
        Variants(o) ==
            {o} \cup {SetKey(o, k, w) : k \in DOMAIN o.v, w \in Wrong}
                \cup {Without(o, k) : k \in DOMAIN o.v}
        Stay ==
            Obj([time |-> Str("14:00"), title |-> Str("Hotel check-in"),
                 details |-> Str("Two nights"), durationMinutes |-> Num(30),
                 costUSD |-> Num(1000)])
        DayOf(activities) ==
            Obj([day |-> Num(1), date |-> Str("01/03/2027"), activities |-> activities])
        Comparison == Obj([budgetAmountUSD |-> Num(800), isOverBudget |-> Bool(TRUE)])
        SummaryOf(comparison) ==
            ObjectOf([totalCostUSD |-> Num(1), dailyAverageCostUSD |-> Num(1),
                      costBreakdown |-> Obj([food |-> Num(1)]),
                      budgetComparisonUSD |-> comparison])
        DocumentOf(days, summary) ==
            ObjectOf([itinerary |-> days, packing_list |-> Arr(<<Str("passport")>>),
                      costSummary |-> summary])
        Transfer == Activity("08:00", "Airport taxi transfer", "Shared ride", Num(35))
    IN  Wrong
        \cup {DocumentOf(Arr(<<DayOf(Arr(<<a>>))>>), Absent) : a \in Variants(Stay) \cup Wrong}
        \cup {DocumentOf(Arr(<<d>>), Absent) : d \in Variants(DayOf(Arr(<<Stay>>))) \cup Wrong}
        \cup Variants(DocumentOf(Arr(<<DayOf(Arr(<<Stay>>))>>), SummaryOf(Comparison)))
        \cup {DocumentOf(Arr(<<DayOf(Arr(<<Stay>>))>>), c) :
                c \in Variants(SummaryOf(Comparison)) \cup Variants(SummaryOf(Absent))}
        \cup {DocumentOf(Arr(<<DayOf(Arr(<<Stay>>))>>), SummaryOf(c)) :
                c \in Variants(Comparison) \cup Wrong}
        \cup {Obj([itinerary |-> Arr(<<DayOf(Arr(<<Stay>>))>>),
                   packing_list |-> Arr(<<Str("passport"), w>>)]) : w \in Wrong}
        \cup {TripDocument, RestDayDocument, UpstreamCostsDocument, NoDaysDocument,
              Obj([itinerary |-> Arr(<<Day(1, "01/03/2027", <<Transfer, HotelCheckIn, Dinner>>),
                                       Day(2, "02/03/2027", <<MuseumTour, FreeTime, Refund>>),
                                       Day(3, "03/03/2027",
                                           <<Transfer, Dinner,
                                             Activity("15:00", "Hop-on bus TOUR",
                                                      "Entrance included", Num(15))>>)>>),
                   packing_list |-> Arr(<<>>)])}

\* The requests whose provider text those values are parsed from: a budget
\* in a currency of the table, in no known currency, without a currency,
\* or no budget.
ResponseRequests ==
    {ObjectOf([destination |-> Str("Paris"), duration |-> Num(3),
               budgetAmount |-> budget[1], budgetCurrency |-> budget[2]]) :
        budget \in Budgets \cup {<<Str("500"), Str("XYZ")>>, <<Str("1200.50"), Str("JPY")>>,
                                  <<Num(2000), Str("USD")>>}}

\* POST after const raw = await callAIWithFallback(prompt) and
\* parsed = JSON.parse(raw), for each request and each parsed value.
ResponseInit ==
    /\ pc = "validateResponse"
    /\ \E request \in ResponseRequests :
        /\ body = BodyOf(request)
        /\ validation = [ran |-> TRUE, isValid |-> TRUE, errors |-> <<>>, warnings |-> <<>>]
        /\ prompt = buildPrompt(request).value
    /\ parsed \in ResponseValues
    /\ raw = JsonStringify(parsed)
    /\ groqOutcome = Resolves(Str(raw))
    /\ OPENROUTER_API_KEY = Undefined
    /\ server = [today |-> Today, dstStart |-> 0, dstEnd |-> 0]
    /\ clock = 0
    /\ \E c \in CacheStates : exchangeRatesCache = c.cache /\ lastRateUpdate = c.last
    /\ stages = <<"requestValidation", "providerOrchestration", "jsonParsing">>
    /\ calls = <<"groq">>
    /\ openRouterOutcome = Pending
    /\ lastError = NoError
    /\ thrown = NoError
    /\ response = NoResponse

ResponseNext == ValidateResponse \/ NormalizeCosts

\* validateTripResponse and the cost functions applied to each parsed value.
ResponseSpec == ResponseInit /\ [][ResponseNext]_vars

\* The latest time of the server's clock, in minutes.
MaxClock == 60

\* The request among other requests of the same server process: between two
\* steps of the request time passes, another request reads the rates with
\* getExchangeRatesSync (its own cost stage), or with getExchangeRates.
\* Each of them is synchronous code, one step.
ConcurrentSpec ==
    ResponseInit
    /\ [][\/ ResponseNext
          \/ /\ pc # "done"
             /\ clock + 30 <= MaxClock
             /\ clock' = clock + 30
             /\ UNCHANGED <<pc, body, OPENROUTER_API_KEY, server, validation, prompt, stages,
                            calls, groqOutcome, openRouterOutcome, lastError, raw, parsed,
                            thrown, response, exchangeRatesCache, lastRateUpdate>>
          \/ /\ pc # "done"
             /\ exchangeRatesCache'
                    = getExchangeRatesSync(exchangeRatesCache, lastRateUpdate, clock).cache
             /\ lastRateUpdate'
                    = getExchangeRatesSync(exchangeRatesCache, lastRateUpdate, clock).last
             /\ UNCHANGED <<pc, body, OPENROUTER_API_KEY, server, validation, prompt, stages,
                            calls, groqOutcome, openRouterOutcome, lastError, raw, parsed,
                            thrown, response, clock>>
          \/ /\ pc # "done"
             /\ exchangeRatesCache'
                    = getExchangeRates(exchangeRatesCache, lastRateUpdate, clock).cache
             /\ lastRateUpdate'
                    = getExchangeRates(exchangeRatesCache, lastRateUpdate, clock).last
             /\ UNCHANGED <<pc, body, OPENROUTER_API_KEY, server, validation, prompt, stages,
                            calls, groqOutcome, openRouterOutcome, lastError, raw, parsed,
                            thrown, response, clock>>]_vars

Next ==
    \/ ReadBody
    \/ ValidateRequest
    \/ BuildPrompt
    \/ CallGroq
    \/ GroqSettles
    \/ CallOpenRouter
    \/ OpenRouterSettles
    \/ ParseJSON
    \/ ValidateResponse
    \/ NormalizeCosts

Spec == Init /\ [][Next]_vars

\* The handler moves on from a position where it has not responded yet.
\* Every step of Next moves pc and every position but "done" has a step of
\* Next, so that fairness of Advance is fairness of Next.
Advance ==
    /\ pc # "done"
    /\ pc' \in {"validate", "prompt", "callGroq", "awaitGroq", "callOpenRouter",
               "awaitOpenRouter", "parse", "validateResponse", "cost", "done"} \ {pc}

\* Every step of the handler is taken in the end: the runtime runs the
\* handler's code, and a provider call returns or fails.
FairSpec == Spec /\ WF_pc(Advance)

-----------------------------------------------------------------------------
(* Properties of the provider orchestrator and of the pipeline *)

Range(seq) == {seq[i] : i \in 1..Len(seq)}

\* A provider call settled with non-empty text.
ReturnedText(outcome) ==
    outcome.kind = "content" /\ outcome.content.t = "string" /\ outcome.content.v # ""

\* A provider call settled without non-empty text: it failed.
Failed(outcome) == outcome # Pending /\ ~ReturnedText(outcome)

\* callAIWithFallback has returned its text to POST.
OrchestratorReturned == pc \in {"parse", "validateResponse", "cost"} \/ "jsonParsing" \in Range(stages)

\* The JSON text the orchestrator returned is an itinerary validateTripResponse accepts.
RawIsValidItinerary ==
    /\ JSONParse(raw, Documents).returns
    /\ validateTripResponse(JSONParse(raw, Documents).value)

StageOrder ==
    <<"requestValidation", "providerOrchestration", "jsonParsing", "responseValidation",
      "costNormalization">>

\* C1: when the primary call returns non-empty text, callAIWithFallback
\* returns exactly that text and the fallback provider is never called; the
\* text callAIWithFallback returns is never empty.
C1_PrimaryTextShortCircuits ==
    /\ ReturnedText(groqOutcome) =>
            /\ OrchestratorReturned
            /\ raw = groqOutcome.content.v
            /\ calls = <<"groq">>
            /\ openRouterOutcome = Pending
    /\ OrchestratorReturned => raw # ""

C1_Witness ==
    /\ pc = "done"
    /\ ReturnedText(groqOutcome)
    /\ Truthy(OPENROUTER_API_KEY)
    /\ raw = groqOutcome.content.v

\* C2 as stated: a retryable primary failure followed by non-empty text from
\* the configured fallback ends in a success response without an error.
C2_FallbackTextAlwaysSucceeds ==
    (/\ pc = "done"
     /\ Failed(groqOutcome) /\ shouldFallback(lastError) /\ Truthy(OPENROUTER_API_KEY)
     /\ ReturnedText(openRouterOutcome))
    => response.status = 200 /\ response.error = ""

\* C2 amended: after a retryable primary failure and non-empty text from the
\* configured fallback, callAIWithFallback returns the fallback's text, no
\* exception reaches the catch block of POST (the primary failure is
\* swallowed), and the response is a success without an error exactly when
\* that text is JSON that validateTripResponse accepts.
C2_FallbackTextSwallowsPrimaryFailure ==
    (/\ Failed(groqOutcome) /\ shouldFallback(lastError) /\ Truthy(OPENROUTER_API_KEY)
     /\ ReturnedText(openRouterOutcome))
    => /\ OrchestratorReturned
       /\ raw = openRouterOutcome.content.v
       /\ thrown = NoError
       /\ response.status \notin {429, 503}
       /\ pc = "done" =>
            IF RawIsValidItinerary
            THEN response.status = 200 /\ response.error = ""
            ELSE response.status = 500

C2_Witness ==
    /\ pc = "done"
    /\ Failed(groqOutcome)
    /\ lastError.status = 503
    /\ ReturnedText(openRouterOutcome)
    /\ raw = openRouterOutcome.content.v
    /\ response.status = 200

\* C3: when both provider calls fail, the error callAIWithFallback throws is
\* the error of the primary call, not the error of the fallback call.
C3_BothFailThrowsPrimaryError ==
    (Failed(groqOutcome) /\ Failed(openRouterOutcome))
    => /\ thrown = callGroqAPI(groqOutcome).error
       /\ thrown = lastError
       /\ thrown # callOpenRouterAPI(openRouterOutcome).error

C3_Witness ==
    /\ pc = "done"
    /\ Failed(groqOutcome)
    /\ openRouterOutcome.kind = "rejects"
    /\ thrown = groqOutcome.error

\* C4: when the primary call fails and the failure is fatal or no fallback
\* key is configured, the fallback provider is never called and the
\* primary's error reaches POST unchanged.
C4_NoFallbackPropagatesPrimaryError ==
    (/\ Failed(groqOutcome)
     /\ (~shouldFallback(callGroqAPI(groqOutcome).error) \/ ~Truthy(OPENROUTER_API_KEY)))
    => /\ calls = <<"groq">>
       /\ openRouterOutcome = Pending
       /\ pc = "done"
       /\ thrown = callGroqAPI(groqOutcome).error

C4_Witness ==
    /\ pc = "done"
    /\ groqOutcome.kind = "rejects"
    /\ shouldFallback(groqOutcome.error)
    /\ ~Truthy(OPENROUTER_API_KEY)
    /\ thrown = groqOutcome.error

\* C5: at most two provider calls are made, the primary once and then the
\* fallback once, and the fallback is called only after the primary call
\* has failed.
C5_AtMostTwoSequentialCalls ==
    /\ calls \in {<<>>, <<"groq">>, <<"groq", "openrouter">>}
    /\ "openrouter" \in Range(calls) => Failed(groqOutcome)
    /\ openRouterOutcome # Pending => calls = <<"groq", "openrouter">>
    /\ groqOutcome # Pending => "groq" \in Range(calls)

C5_Witness ==
    /\ pc = "done"
    /\ calls = <<"groq", "openrouter">>
    /\ Failed(groqOutcome)
    /\ openRouterOutcome # Pending

\* C6: the stages run in the order request validation, provider
\* orchestration, JSON parsing, response validation, cost normalization,
\* each at most once and only after every earlier stage succeeded; the cost
\* functions are applied only to a payload validateTripResponse accepts.
C6_StagesInOrder ==
    /\ \E n \in 0..Len(StageOrder) : stages = SubSeq(StageOrder, 1, n)
    /\ "providerOrchestration" \in Range(stages) => validation.ran /\ validation.isValid
    /\ "jsonParsing" \in Range(stages) =>
            (ReturnedText(groqOutcome) \/ ReturnedText(openRouterOutcome)) /\ thrown = NoError
    /\ "responseValidation" \in Range(stages) =>
            JSONParse(raw, Documents).returns /\ parsed = JSONParse(raw, Documents).value
    /\ (pc = "cost" \/ "costNormalization" \in Range(stages)) =>
            /\ "responseValidation" \in Range(stages)
            /\ validateTripResponse(parsed)

C6_Witness ==
    /\ pc = "done"
    /\ stages = StageOrder
    /\ response.status = 200

\* C7: when validateRequestBody reports an error, POST responds with status
\* 400 and the validator's error list, and no provider is called.
C7_InvalidRequestIs400 ==
    (validation.ran /\ ~validation.isValid)
    => /\ Len(validation.errors) > 0
       /\ pc = "done"
       /\ response = ErrorResponse(400, "Invalid request parameters", ErrorList(validation.errors))
       /\ calls = <<>>
       /\ groqOutcome = Pending /\ openRouterOutcome = Pending

C7_Witness ==
    /\ pc = "done"
    /\ validation.ran
    /\ Len(validation.errors) >= 2
    /\ response.status = 400

\* C8: once a provider has returned text no further provider call is made;
\* text that is no JSON, or JSON that validateTripResponse rejects, gets a
\* response with status 500 and the other provider is not tried.
C8_BadTextIs500NoRetry ==
    OrchestratorReturned
    => /\ calls = (IF ReturnedText(groqOutcome) THEN <<"groq">> ELSE <<"groq", "openrouter">>)
       /\ ReturnedText(groqOutcome) => openRouterOutcome = Pending
       /\ pc \notin {"callGroq", "awaitGroq", "callOpenRouter", "awaitOpenRouter"}
       /\ (pc = "done" /\ ~RawIsValidItinerary) =>
            /\ response.status = 500
            /\ response.error =
                    (IF JSONParse(raw, Documents).returns
                     THEN "Invalid itinerary structure"
                     ELSE "Invalid response format from AI service")

C8_Witness ==
    /\ pc = "done"
    /\ Truthy(OPENROUTER_API_KEY)
    /\ ReturnedText(groqOutcome)
    /\ parsed = NoPackingListDocument
    /\ response.status = 500
    /\ calls = <<"groq">>

\* The kinds of failure the orchestrator recognises in the primary's error.
RateLimitFailure(error) ==
    InstanceOfError(error) /\ Includes(ToLowerCase(error.message), "rate limit")
UnavailableFailure(error) ==
    \/ Includes(ToLowerCase(StringOf(error)), "503")
    \/ InstanceOfError(error) /\ Includes(ToLowerCase(error.message), "service unavailable")
    \/ 503 \in {error.status, error.statusCode, error.responseStatus}

\* C9: when both providers were called and both failed, the status is 429
\* for a rate-limit failure and 503 for unavailable providers, whatever the
\* shape in which the orchestrator recognised the failure.
C9_ExhaustedProvidersAre429Or503 ==
    (pc = "done" /\ Failed(groqOutcome) /\ Failed(openRouterOutcome))
    => /\ RateLimitFailure(lastError) => response.status = 429
       /\ (UnavailableFailure(lastError) /\ ~RateLimitFailure(lastError)) => response.status = 503

\* C10: a response with status 429 or 503 is given only when both providers
\* were called and both failed.
C10_429Or503OnlyWhenBothFailed ==
    response.status \in {429, 503}
    => /\ calls = <<"groq", "openrouter">>
       /\ Failed(groqOutcome)
       /\ Failed(openRouterOutcome)

\* The `error` strings and the fixed `details` of POST's error responses.
ErrorStrings ==
    {"Invalid JSON in request body", "Invalid request parameters",
     "Invalid response format from AI service", "Invalid itinerary structure",
     "Service temporarily unavailable", "Service configuration error",
     "AI service unavailable", "Failed to generate itinerary"}
FixedDetails ==
    {Undefined,
     Str("The AI returned malformed JSON"),
     Str("The AI response does not match the expected format"),
     Str("Both primary and backup services are currently overloaded. Please try again in a moment."),
     Str("Please contact support"),
     Str("Both primary and backup AI services are currently unavailable. Please try again later."),
     Str("An unexpected error occurred")}

\* The response shows a text that is not blank.
Echoed(text) ==
    /\ Trim(text) # ""
    /\ \/ Includes(response.error, text)
       \/ response.details.t = "string" /\ Includes(response.details.v, text)
       \/ /\ response.details.t = "array"
          /\ \E i \in 1..Len(response.details.v) : Includes(response.details.v[i].v, text)

\* C11: every error response has an `error` string of a fixed finite set;
\* its `details` are a fixed text, or the validator's error list for an
\* invalid request; the text of the exception, of either provider's failure
\* and of the provider's output never shows in `error` or `details`.
C11_ErrorResponsesAreFixedTexts ==
    (response # NoResponse /\ response.status # 200)
    => /\ response.error \in ErrorStrings
       /\ response.json = Undefined
       /\ IF response.error = "Invalid request parameters"
          THEN response.details = ErrorList(validation.errors)
          ELSE response.details \in FixedDetails
       /\ \A text \in {thrown.message, StringOf(thrown), lastError.message,
                       groqOutcome.error.message, openRouterOutcome.error.message, raw} :
            ~Echoed(text)

C11_Witness ==
    /\ pc = "done"
    /\ groqOutcome.kind = "rejects"
    /\ thrown = groqOutcome.error
    /\ thrown.message = "Bad request: malformed body"
    /\ response.status = 500
    /\ response.details = Str("An unexpected error occurred")

RetryableKind(error) ==
    \/ {error.status, error.statusCode, error.responseStatus} \cap {429, 401, 500, 502, 503} # {}
    \/ \E p \in {"rate limit", "overload", "500", "502", "503", "internal server error",
                 "bad gateway", "service unavailable", "401", "unauthorized",
                 "invalid api key", "timeout", "timed out"} :
            Includes(ToLowerCase(StringOf(error)), p)

\* C13: with a fallback key configured, a failure of the primary call leads
\* to the fallback call exactly when it is of one of the retryable kinds,
\* recognised by a status field or by its text; any other failure is fatal.
C13_RetryableKindsRecognised ==
    (groqOutcome.kind = "rejects" /\ Truthy(OPENROUTER_API_KEY))
    => ((pc = "callOpenRouter" \/ "openrouter" \in Range(calls))
        <=> RetryableKind(groqOutcome.error))

\* The TripRequest data model, read off a request body: a date range is
\* valid when both dates are MM/DD/YYYY days, the start is not in the past
\* and the end is 1 to 365 calendar days after the start.
ValidDateRange(from, to, srv) ==
    /\ from.t = "string" /\ to.t = "string"
    /\ parseDateString(from).returns /\ parseDateString(to).returns
    /\ ~parseDateString(from).value.isNull /\ ~parseDateString(to).value.isNull
    /\ parseDateString(from).value.day >= srv.today
    /\ parseDateString(to).value.day - parseDateString(from).value.day \in 1..365
IntegerFrom(x, low) ==
    /\ x.t \in {"number", "string"}
    /\ IsInteger(ToNumber(x))
    /\ LessEq(Num(low), ToNumber(x))
SatisfiesTripRequest(b, srv) ==
    /\ b.t = "object"
    /\ HasKey(b, "destination")
    /\ Get(b, "destination").t = "string"
    /\ Trim(Get(b, "destination").v) # ""
    /\ (HasKey(b, "from") \/ HasKey(b, "to"))
            => ValidDateRange(Get(b, "from"), Get(b, "to"), srv)
    /\ HasKey(b, "duration")
            => IntegerFrom(Get(b, "duration"), 1) /\ LessEq(ToNumber(Get(b, "duration")), Num(365))
    /\ HasKey(b, "from") \/ HasKey(b, "duration")
    /\ HasKey(b, "numberOfPeople") => IntegerFrom(Get(b, "numberOfPeople"), 1)
    /\ HasKey(b, "budgetAmount")
            => /\ Get(b, "budgetAmount").t \in {"number", "string"}
               /\ Greater(ToNumber(Get(b, "budgetAmount")), Num(0))
    /\ HasKey(b, "budgetCurrency")
            => /\ Get(b, "budgetCurrency").t = "string"
               /\ IsCurrencyCode(Get(b, "budgetCurrency").v)

\* C14: validateRequestBody gives isValid = true and no errors for every
\* request that satisfies the TripRequest data model.
C14_ValidRequestsAreAccepted ==
    [][(pc = "validate" /\ SatisfiesTripRequest(body.value, server))
       => (validation'.ran /\ validation'.isValid /\ validation'.errors = <<>>)]_vars

\* The validator warned that the dates and the explicit duration disagree.
MismatchWarned ==
    \E i \in 1..Len(validation.warnings) :
        Includes(validation.warnings[i], "differs from specified duration")

\* C15: when the dates and the explicit duration of a request disagree, the
\* request is valid with a warning and the duration passed to the prompt
\* is the one derived from the dates.
C15_DateDerivedDurationIsUsed ==
    (prompt.built /\ MismatchWarned)
    => /\ validation.isValid
       /\ prompt.days = calculateDaysBetween(parseDateString(Get(body.value, "from")).value,
                                             parseDateString(Get(body.value, "to")).value,
                                             server)

\* The shape of an accepted response, as the specification states it.
ShapeOfActivity(a) ==
    /\ a.t = "object"
    /\ \A k \in {"time", "title", "details"} : Get(a, k).t = "string"
    /\ \A k \in {"durationMinutes", "costUSD"} : HasKey(a, k) => Get(a, k).t = "number"
ShapeOfDay(d) ==
    /\ d.t = "object"
    /\ Get(d, "day").t = "number"
    /\ Get(d, "date").t = "string"
    /\ Get(d, "activities").t = "array"
    /\ \A i \in 1..Len(Get(d, "activities").v) : ShapeOfActivity(Get(d, "activities").v[i])
ShapeOfCostSummary(c) ==
    /\ c.t = "object"
    /\ Get(c, "totalCostUSD").t = "number"
    /\ Get(c, "dailyAverageCostUSD").t = "number"
    /\ Get(c, "costBreakdown").t \in {"object", "array"}
    /\ HasKey(c, "budgetComparisonUSD")
            => /\ Get(c, "budgetComparisonUSD").t = "object"
               /\ Get(Get(c, "budgetComparisonUSD"), "budgetAmountUSD").t = "number"
               /\ Get(Get(c, "budgetComparisonUSD"), "isOverBudget").t = "boolean"
ShapeOfTripResponse(data) ==
    /\ data.t = "object"
    /\ Get(data, "itinerary").t = "array"
    /\ Len(Get(data, "itinerary").v) > 0
    /\ \A i \in 1..Len(Get(data, "itinerary").v) : ShapeOfDay(Get(data, "itinerary").v[i])
    /\ Get(data, "packing_list").t = "array"
    /\ \A i \in 1..Len(Get(data, "packing_list").v) :
            Get(data, "packing_list").v[i].t = "string"
    /\ HasKey(data, "costSummary") => ShapeOfCostSummary(Get(data, "costSummary"))

\* C16: validateTripResponse accepts a JSON value exactly when it has the
\* shape of a trip response; a null where an object is required is
\* rejected.
C16_AcceptsExactlyTheShape ==
    "responseValidation" \in Range(stages)
    => ((pc = "cost" \/ response.status = 200) <=> ShapeOfTripResponse(parsed))

\* The sum of the costUSD of the first n activities, a missing cost counting
\* as 0, and the sum of the dailyCostUSD of the first n days.
RECURSIVE SumOfCosts(_, _)
SumOfCosts(activities, n) ==
    IF n = 0 THEN Num(0)
    ELSE Plus(SumOfCosts(activities, n - 1),
              IF HasKey(activities[n], "costUSD") THEN Get(activities[n], "costUSD")
              ELSE Num(0))
RECURSIVE SumOfDailyCosts(_, _)
SumOfDailyCosts(days, n) ==
    IF n = 0 THEN Num(0)
    ELSE Plus(SumOfDailyCosts(days, n - 1), Get(days[n], "dailyCostUSD"))

\* C17: in a success response each day's dailyCostUSD is the sum of the
\* costUSD of the day's activities in the provider's payload, and
\* costSummary.totalCostUSD is the sum of the days' dailyCostUSD, whatever
\* dailyCostUSD or costSummary the payload carried.
C17_CostsAreRecomputed ==
    response.status = 200
    => /\ Len(Get(response.json, "itinerary").v) = Len(Get(parsed, "itinerary").v)
       /\ \A i \in 1..Len(Get(parsed, "itinerary").v) :
            Get(Get(response.json, "itinerary").v[i], "dailyCostUSD")
                = SumOfCosts(Get(Get(parsed, "itinerary").v[i], "activities").v,
                             Len(Get(Get(parsed, "itinerary").v[i], "activities").v))
       /\ Get(Get(response.json, "costSummary"), "totalCostUSD")
            = SumOfDailyCosts(Get(response.json, "itinerary").v,
                              Len(Get(response.json, "itinerary").v))

C17_Witness ==
    /\ response.status = 200
    /\ parsed = UpstreamCostsDocument
    /\ Get(Get(parsed, "itinerary").v[1], "dailyCostUSD") = Num(999)
    /\ Get(Get(response.json, "itinerary").v[1], "dailyCostUSD") # Num(999)
    /\ Get(Get(response.json, "costSummary"), "totalCostUSD") # Num(1)

\* The cost breakdown of the success response and the sum of its buckets.
BreakdownOfResponse == Get(Get(response.json, "costSummary"), "costBreakdown")
SumOfBuckets(breakdown) ==
    Plus(Plus(Plus(Plus(Get(breakdown, "accommodation"), Get(breakdown, "food")),
                   Get(breakdown, "activities")),
              Get(breakdown, "transportation")),
         Get(breakdown, "other"))

\* The sum of the costs of the first n activities that fall into a category.
RECURSIVE SumOfCategory(_, _, _)
SumOfCategory(activities, n, category) ==
    IF n = 0 THEN Num(0)
    ELSE Plus(SumOfCategory(activities, n - 1, category),
              IF categorizeCost(activities[n]) = category
              THEN SumOfCosts(<<activities[n]>>, 1) ELSE Num(0))

\* C18: for an itinerary that validateTripResponse accepts the breakdown
\* has the five buckets, they sum to calculateTotalCost of the itinerary, and
\* each activity's cost is in the one bucket of its category.
C18_BucketsSumToTotal ==
    response.status = 200
    => /\ DOMAIN BreakdownOfResponse.v = Categories
       /\ SumOfBuckets(BreakdownOfResponse) = calculateTotalCost(Get(parsed, "itinerary").v)
       /\ SumOfBuckets(BreakdownOfResponse)
            = Get(Get(response.json, "costSummary"), "totalCostUSD")
       /\ \A a \in Range(AllActivities(Get(parsed, "itinerary").v)) :
            categorizeCost(a) \in Categories
       /\ \A c \in Categories :
            Get(BreakdownOfResponse, c)
                = SumOfCategory(AllActivities(Get(parsed, "itinerary").v),
                                Len(AllActivities(Get(parsed, "itinerary").v)), c)

C18_Witness ==
    /\ response.status = 200
    /\ Len(Get(parsed, "itinerary").v) = 3
    /\ \A c \in Categories : Get(BreakdownOfResponse, c) # Num(0)

\* The cost summary of the success response.
SummaryOfResponse == Get(response.json, "costSummary")

\* C19: the cost summary of a success response has a budget comparison
\* exactly when the request supplied a budget amount, whatever its currency.
C19_ComparisonWheneverBudgetGiven ==
    response.status = 200
    => (HasKey(SummaryOfResponse, "budgetComparisonUSD")
        <=> (HasKey(body.value, "budgetAmount") /\ Truthy(Get(body.value, "budgetAmount"))))

\* The rate of the table for a currency code, 1 for a code it does not hold.
TableRate(code) ==
    IF code \in DOMAIN DEFAULT_EXCHANGE_RATES THEN DEFAULT_EXCHANGE_RATES[code] ELSE Num(1)

\* The budget comparison for a total, a budget amount and a rate, as the
\* specification states it.
ComparisonHolds(comparison, total, amount, rate) ==
    /\ Get(comparison, "budgetAmountUSD") = Divide(amount, rate)
    /\ Get(comparison, "differenceUSD") = Minus(total, Divide(amount, rate))
    /\ Get(comparison, "differencePercentage")
            = Times(Divide(Minus(total, Divide(amount, rate)), Divide(amount, rate)), Num(100))
    /\ Get(comparison, "isOverBudget")
            = Bool(Greater(Minus(total, Divide(amount, rate)), Num(0)))

\* C20: the budget comparison of a success response is the budget divided
\* by the table rate of its currency (1 for USD and for an unknown code),
\* the difference of the total and that amount, the difference as a
\* percentage of it, and isOverBudget exactly when the difference is
\* positive; a total of 1000 and a budget of 800 USD give true, 200 and 25.
C20_BudgetComparisonArithmetic ==
    (response.status = 200 /\ HasKey(SummaryOfResponse, "budgetComparisonUSD"))
    => /\ Greater(ToNumber(Get(body.value, "budgetAmount")), Num(0))
       /\ ComparisonHolds(Get(SummaryOfResponse, "budgetComparisonUSD"),
                          Get(SummaryOfResponse, "totalCostUSD"),
                          ToNumber(Get(body.value, "budgetAmount")),
                          TableRate(Get(body.value, "budgetCurrency").v))
       /\ (/\ Get(SummaryOfResponse, "totalCostUSD") = Num(1000)
           /\ ToNumber(Get(body.value, "budgetAmount")) = Num(800)
           /\ Get(body.value, "budgetCurrency") = Str("USD"))
          => /\ Get(Get(SummaryOfResponse, "budgetComparisonUSD"), "isOverBudget") = Bool(TRUE)
             /\ Get(Get(SummaryOfResponse, "budgetComparisonUSD"), "differenceUSD") = Num(200)
             /\ Get(Get(SummaryOfResponse, "budgetComparisonUSD"), "differencePercentage")
                    = Num(25)

C20_Witness ==
    /\ response.status = 200
    /\ Get(SummaryOfResponse, "totalCostUSD") = Num(1000)
    /\ Get(body.value, "budgetAmount") = Str("100")
    /\ Get(body.value, "budgetCurrency") = Str("EUR")
    /\ Get(Get(SummaryOfResponse, "budgetComparisonUSD"), "budgetAmountUSD")
            = Divide(Num(100), DEFAULT_EXCHANGE_RATES["EUR"])
    /\ Get(Get(SummaryOfResponse, "budgetComparisonUSD"), "isOverBudget") = Bool(TRUE)

\* The keywords of a category, for the title and for the details.
TitleKeywords(category) ==
    CASE category = "accommodation" -> {"hotel", "accommodation", "check-in"}
      [] category = "food" -> {"restaurant", "lunch", "dinner", "breakfast", "food", "cafe"}
      [] category = "transportation" -> {"transport", "taxi", "bus", "train", "flight", "metro"}
      [] category = "activities" -> {"museum", "tour", "ticket", "attraction", "activity"}
      [] OTHER -> {}
DetailsKeywords(category) ==
    CASE category = "accommodation" -> {"hotel", "accommodation"}
      [] category = "food" -> {"restaurant", "meal", "food"}
      [] category = "transportation" -> {"transport", "travel"}
      [] category = "activities" -> {"entrance", "admission"}
      [] OTHER -> {}
KeywordsMatch(activity, category) ==
    \/ \E k \in TitleKeywords(category) :
            Includes(ToLowerCase(Get(activity, "title").v), k)
    \/ \E k \in DetailsKeywords(category) :
            Includes(ToLowerCase(Get(activity, "details").v), k)
CategoryOrder == <<"accommodation", "food", "transportation", "activities">>
FirstCategory(activity) ==
    IF \E i \in 1..Len(CategoryOrder) : KeywordsMatch(activity, CategoryOrder[i])
    THEN CategoryOrder[CHOOSE i \in 1..Len(CategoryOrder) :
                            /\ KeywordsMatch(activity, CategoryOrder[i])
                            /\ \A j \in 1..(i - 1) : ~KeywordsMatch(activity, CategoryOrder[j])]
    ELSE "other"
TitleExamples ==
    {<<"Hotel check-in", "accommodation">>, <<"Dinner at a local restaurant", "food">>,
     <<"Airport taxi transfer", "transportation">>, <<"Louvre museum tour", "activities">>,
     <<"Free time", "other">>}

\* The activities of the accepted itinerary whose costs were put in buckets.
CategorizedActivities ==
    IF response.status = 200 THEN Range(AllActivities(Get(parsed, "itinerary").v)) ELSE {}

\* C21: categorizeCost gives each activity of an accepted itinerary one of
\* the five categories: the first of accommodation, food, transportation,
\* activities whose keywords occur in the lowercased title or details, and
\* other when none occur; the titles of the examples give their categories
\* when the details name no earlier category.
C21_FirstMatchingCategory ==
    \A a \in CategorizedActivities :
        /\ categorizeCost(a) \in Categories
        /\ categorizeCost(a) = FirstCategory(a)
        /\ \A e \in TitleExamples :
            (/\ Get(a, "title") = Str(e[1])
             /\ \A c \in Categories \ {"other"} :
                    \A k \in DetailsKeywords(c) :
                        ~Includes(ToLowerCase(Get(a, "details").v), k))
            => categorizeCost(a) = e[2]
        /\ (KeywordsMatch(a, "transportation") /\ KeywordsMatch(a, "activities")
            /\ ~KeywordsMatch(a, "accommodation") /\ ~KeywordsMatch(a, "food"))
            => categorizeCost(a) = "transportation"

C21_Witness ==
    /\ response.status = 200
    /\ \E a \in CategorizedActivities :
        /\ Get(a, "title") = Str("Hop-on bus TOUR")
        /\ KeywordsMatch(a, "transportation") /\ KeywordsMatch(a, "activities")
    /\ \A e \in TitleExamples : \E a \in CategorizedActivities : Get(a, "title") = Str(e[1])
    /\ Get(BreakdownOfResponse, "transportation") = Num(85)

\* C22: validateRequestBody returns a result with isValid, errors and
\* warnings for every JSON value of the request body, null and non-objects
\* included, and throws nothing.
C22_ValidatorNeverThrows ==
    "requestValidation" \in Range(stages)
    => /\ validation.ran
       /\ validation.isValid = (validation.errors = <<>>)
       /\ (pc = "done" /\ ~validation.isValid) => (thrown = NoError /\ response.status = 400)

\* C23: a request for which a provider is called has a duration that is an
\* integer from 1 to 365, read as a number whatever its JSON type.
C23_AcceptedDurationInRange ==
    calls # <<>>
    => /\ validation.isValid
       /\ IsInteger(ToNumber(Get(body.value, "duration")))
       /\ LessEq(Num(1), ToNumber(Get(body.value, "duration")))
       /\ LessEq(ToNumber(Get(body.value, "duration")), Num(365))
       /\ prompt.days = Get(body.value, "duration")

\* C24: validateRequestBody leaves the request object as it found it.
C24_ValidatorLeavesRequestUnchanged ==
    [][pc = "validate" => body' = body]_vars

\* The days of the success response.
DaysOfResponse == Get(response.json, "itinerary").v

\* C25: in a success response every cost is at least 0: the costUSD of an
\* activity that has one, the dailyCostUSD of a day, the total and the five
\* buckets of the breakdown.
C25_CostsAreNonNegative ==
    response.status = 200
    => /\ \A i \in 1..Len(DaysOfResponse) :
            /\ LessEq(Num(0), Get(DaysOfResponse[i], "dailyCostUSD"))
            /\ \A j \in 1..Len(Get(DaysOfResponse[i], "activities").v) :
                HasKey(Get(DaysOfResponse[i], "activities").v[j], "costUSD")
                => LessEq(Num(0), Get(Get(DaysOfResponse[i], "activities").v[j], "costUSD"))
       /\ LessEq(Num(0), Get(SummaryOfResponse, "totalCostUSD"))
       /\ \A c \in Categories : LessEq(Num(0), Get(BreakdownOfResponse, c))

\* C26: in a success response the days are numbered 1, 2, ..., n in order.
C26_DaysAreNumberedFromOne ==
    response.status = 200
    => \A i \in 1..Len(DaysOfResponse) : Get(DaysOfResponse[i], "day") = Num(i)

\* C27: the cost summary is only computed for an itinerary with at least
\* one day, and in a success response dailyAverageCostUSD is the total
\* divided by the number of days, a number.
C27_AverageIsDefined ==
    /\ pc = "cost" => Len(Get(parsed, "itinerary").v) >= 1
    /\ "costNormalization" \in Range(stages) => Len(Get(parsed, "itinerary").v) >= 1
    /\ response.status = 200
        => /\ Len(DaysOfResponse) >= 1
           /\ IsFinite(Get(SummaryOfResponse, "dailyAverageCostUSD"))
           /\ Get(SummaryOfResponse, "dailyAverageCostUSD")
                = Divide(Get(SummaryOfResponse, "totalCostUSD"), Num(Len(DaysOfResponse)))

C27_Witness ==
    /\ response.status = 200
    /\ Len(DaysOfResponse) = 3
    /\ Get(SummaryOfResponse, "totalCostUSD") = Num(291)
    /\ Get(SummaryOfResponse, "dailyAverageCostUSD") = Num(97)

\* C28: a read of the currency table sees a cache that is less than
\* RATE_CACHE_DURATION old or rebuilds it: after the read of the cost stage
\* the cache is never older than that.
C28_ReadsAreFreshOrRebuild ==
    (response.status = 200 /\ HasKey(SummaryOfResponse, "budgetComparisonUSD"))
    => /\ ~lastRateUpdate.isNull
       /\ clock - lastRateUpdate.time < RATE_CACHE_DURATION

\* C29 as stated: once the cache is built, later rebuilds leave its
\* contents as they are.
C29_RebuildsLeaveCacheEqual ==
    [][exchangeRatesCache # EmptyCache => exchangeRatesCache' = exchangeRatesCache]_vars

\* The success response of the request handled alone, on a server that has
\* just started.
ResponseAlone ==
    SuccessResponse(ToJSON(EnhancedResponse(
        parsed,
        addDailyCostsToItinerary(Get(parsed, "itinerary").v),
        generateCostSummary(
            SetKey(parsed, "itinerary", Arr(addDailyCostsToItinerary(Get(parsed, "itinerary").v))),
            Get(body.value, "budgetAmount"), Get(body.value, "budgetCurrency"),
            EmptyCache, NullTime, 0).summary,
        NumberOfPeopleOf(body.value))))

\* C29: whatever other requests read or rebuild the cache before or between
\* the steps of a request, and whenever, a cache that is built holds the
\* rate of the static table for every code of the table, and the request's
\* success response is the one it gets when it is handled alone.
C29_RatesAreTheStaticTable ==
    /\ exchangeRatesCache # EmptyCache
        => /\ RatesOf(exchangeRatesCache) = DEFAULT_EXCHANGE_RATES
           /\ getExchangeRatesSync(exchangeRatesCache, lastRateUpdate, clock).rates
                = DEFAULT_EXCHANGE_RATES
           /\ getExchangeRates(exchangeRatesCache, lastRateUpdate, clock).rates
                = DEFAULT_EXCHANGE_RATES
    /\ response.status = 200 => response = ResponseAlone

C29_Witness ==
    /\ response.status = 200
    /\ Get(body.value, "budgetCurrency") = Str("EUR")
    /\ HasKey(SummaryOfResponse, "budgetComparisonUSD")
    /\ clock = MaxClock
    /\ lastRateUpdate = TimeOf(30)
    /\ "costNormalization" \in Range(stages)

\* C30: in a success response numberOfPeople is an integer of at least 1:
\* 1 when the request gave no party size (absent, empty or null), else the
\* integer parsed from the value given.
C30_PartySizeIsPositiveInteger ==
    response.status = 200
    => /\ IsInteger(Get(response.json, "numberOfPeople"))
       /\ LessEq(Num(1), Get(response.json, "numberOfPeople"))
       /\ Get(body.value, "numberOfPeople") \in {Undefined, Null, Str("")}
            => Get(response.json, "numberOfPeople") = Num(1)
       /\ Get(body.value, "numberOfPeople") \notin {Undefined, Null, Str("")}
            => Get(response.json, "numberOfPeople") = ParseInt(Get(body.value, "numberOfPeople"))

====
